---------------------------- MODULE Spec2Model ----------------------------
(***************************************************************************)
(* Reconciliation of purchase-win records against the remote CRM           *)
(* (SystemCRM24/unisimple_mail).                                           *)
(*                                                                         *)
(*   Spec       reconciliation passes of process_parsed_data_for_amocrm    *)
(*              over one unchanged batch, one remote call per step, with   *)
(*              the remote CRM as state.                                   *)
(*   SpecPages  AmoClient._get_all_pages draining one list endpoint        *)
(*              (src/src/amo/client.py 110-154), one loop iteration per    *)
(*              step, against an arbitrary finite server listing.          *)
(*   SpecPagesFair  SpecPages with weak fairness of the loop.              *)
(*   SpecDir    one AmoClient loading its name -> id maps                  *)
(*              (_ensure_ids_initialized, client.py 157-196).              *)
(*   SpecResume the passes of Spec, cut short by a stop of the process     *)
(*              (main.py 102-105) and taken up again by the next start.    *)
(*   SpecPoll   the polling loop of main (main.py 44-101): files, the      *)
(*              timestamp gate, one CRM session per batch.                 *)
(*   SpecService  the pipeline service run by run_pipeline_optimization.py *)
(*              (src/src/services/amo_pipeline_services.py).               *)
(*   SpecRequest  one operation of the client down to AmoClient._request   *)
(*              (client.py 65-107): gate, HTTP request, answer.            *)
(*   SpecSearch the client-side filter of search_companies_by_inn          *)
(*              (client.py 291-301) over one search result.                *)
(***************************************************************************)
EXTENDS Integers, Sequences, FiniteSets, TLC

(***************************************************************************)
(* Bounds of the model.                                                    *)
(***************************************************************************)
MaxPages == 3        \* pages of a server listing
MaxItems == 2        \* items of one page
MaxPasses == 2       \* reconciliation passes over the batch
MaxFailures == 1     \* remote requests that fail in one run
MaxInterrupts == 1   \* passes cut short by a stop of the process

VARIABLES
    gp_listing,      \* what the server answers for page 1, 2, ... of the endpoint
    gp_page,         \* _get_all_pages: page
    gp_all_data,     \* _get_all_pages: all_data
    gp_pc,           \* "loop" | "returned" | "raised"
    gp_requests,     \* the page numbers requested so far, in order
    gp_params,       \* the query dictionary the caller passed, as the caller sees it
    gp_queries       \* the query dictionaries of the requests sent so far, in order

gpVars == <<gp_listing, gp_page, gp_all_data, gp_pc, gp_requests, gp_params, gp_queries>>

VARIABLES
    \* configuration and input, fixed for a run
    MIN_LEAD_BUDGET, \* settings.MIN_LEAD_BUDGET, in roubles
    dir,             \* the name -> id maps of the AmoClient after loading
    batch,           \* parsed_purchases: the unchanged record set
    \* the remote CRM
    companies,       \* sequence of companies, id = position
    leads,           \* sequence of leads, id = position
    tasks,           \* sequence of tasks
    \* the run
    pass_no,         \* passes started so far
    failures,        \* requests that failed so far
    unauthorized,    \* a request of this pass was answered 401
    pc,              \* position of the worker
    idx,             \* index in batch of the record in progress
    loc,             \* locals of _handle_lead_processing
    calls,           \* remote requests issued for the record in progress
    raised,          \* the record in progress ended with an exception
    outcomes,        \* how each record handled so far in this pass ended
    interrupted      \* the positions at which earlier passes were cut short

cfgVars == <<MIN_LEAD_BUDGET, dir, batch>>
crmVars == <<companies, leads, tasks>>
runVars == <<pass_no, failures, unauthorized, pc, idx, loc, calls, raised, outcomes, interrupted>>

VARIABLES
    \* the directory of one AmoClient being loaded
    ld_catalog,      \* what the server lists on each directory endpoint
    initialized_ids, \* AmoClient._initialized_ids
    ld_pc,           \* position of the client in __aenter__ / _ensure_ids_initialized
    ld_requests,     \* the requests sent so far, in order: <<endpoint, page>>
    ld_calls         \* calls of _ensure_ids_initialized so far

ldVars == <<ld_catalog, initialized_ids, ld_pc, ld_requests, ld_calls>>

VARIABLES
    \* one operation of the client, down to the HTTP request
    rq_op,           \* the operation that is called
    rq_answer,       \* what the server or the transport does with a request
    rq_pc,           \* position in the operation / in _request
    rq_sent,         \* HTTP requests sent so far
    rq_acquired,     \* acquisitions of self._rate_limit granted so far
    rq_result        \* what _request returned or raised

rqVars == <<rq_op, rq_answer, rq_pc, rq_sent, rq_acquired, rq_result>>

VARIABLES
    \* search_companies_by_inn over one search result
    sr_companies,    \* what _get_all_pages collected for the query
    sr_inn,          \* the tax id asked for
    sr_pc,           \* "called" | "returned" | "raised"
    sr_found         \* found_companies

srVars == <<sr_companies, sr_inn, sr_pc, sr_found>>

VARIABLES
    \* the polling loop of main (src/main.py)
    last_processed_extraction_dt,  \* main: the timestamp of the last file handled
    mail,                          \* the most recent file of the mailbox
    polls,                         \* iterations of the loop so far
    pl_pc,                         \* position of the loop
    current_file_extraction_dt,    \* main: the timestamp of the file in hand
    pl_initialized,                \* _initialized_ids of the client of the open session
    pl_rec,                        \* index of the record the session handles next
    polled,                        \* what each iteration found and decided
    sessions                       \* the CRM sessions opened so far

plVars == <<last_processed_extraction_dt, mail, polls, pl_pc, current_file_extraction_dt,
            pl_initialized, pl_rec, polled, sessions>>

VARIABLES
    \* the pipeline service (src/src/services/amo_pipeline_services.py)
    svc_stages,      \* the stages of the pipeline in the CRM: name -> id
    svc_leads,       \* the leads of the pipeline in the CRM
    svc_ids,         \* the module globals PIPELINE_ID_GOV_ORDER, STAGE_ID_..., USER_ID_...
    svc_pc,          \* position of run_pipeline_optimization_tests
    svc_requests     \* the requests sent so far, in order

svVars == <<svc_stages, svc_leads, svc_ids, svc_pc, svc_requests>>

vars == <<gpVars, ldVars, rqVars, srVars, plVars, svVars, cfgVars, crmVars, runVars>>

(***************************************************************************)
(* The answers of a list endpoint, as _get_all_pages tells them apart.     *)
(*   error   _request raised (error status or transport failure)           *)
(*   null    204 / empty body: `not response`                              *)
(*   nokey   no '_embedded', or no result key in it                        *)
(*   falsy   the result key holds a falsy non-list (null, {})              *)
(*   object  the result key holds one truthy non-list object               *)
(*   list    the result key holds a list of items                          *)
(* next is the presence of _links.next.                                    *)
(***************************************************************************)
PageItems(p, n) == [i \in 1..n |-> <<p, i>>]

PageAnswers(p) ==
    {[kind |-> k, items |-> <<>>, next |-> FALSE] : k \in {"error", "null", "nokey", "falsy"}}
    \cup {[kind |-> "object", items |-> PageItems(p, 1), next |-> nx] : nx \in BOOLEAN}
    \cup {[kind |-> "list", items |-> PageItems(p, n), next |-> nx] :
            n \in 0..MaxItems, nx \in BOOLEAN}

RECURSIVE Listings(_)
Listings(n) ==
    IF n = 0 THEN {<<>>}
    ELSE LET shorter == Listings(n - 1)
         IN  shorter \cup {Append(l, a) : l \in {t \in shorter : Len(t) = n - 1},
                                          a \in PageAnswers(n)}

\* A page past the end of a finite listing: the server answers 204 No Content.
ServerPage(listing, p) ==
    IF p <= Len(listing) THEN listing[p]
    ELSE [kind |-> "null", items |-> <<>>, next |-> FALSE]

(***************************************************************************)
(* One iteration of the while loop of _get_all_pages (client.py 124-152)   *)
(* on the answer `resp` to the request of page st.page.                    *)
(*   st = [all_data, page, pc]                                             *)
(***************************************************************************)
PageStepReraise(st, resp) ==
    IF resp.kind = "error"
    THEN [st EXCEPT !.pc = "raised"]
    ELSE IF resp.kind \in {"null", "nokey", "falsy"} \/ (resp.kind = "list" /\ resp.items = <<>>)
    THEN [st EXCEPT !.pc = "returned"]
    ELSE [all_data |-> st.all_data \o resp.items,
          page     |-> IF resp.next THEN st.page + 1 ELSE st.page,
          pc       |-> IF resp.next THEN "loop" ELSE "returned"]

PageStepDropLast(st, resp) ==
    IF resp.kind \in {"error", "null", "nokey", "falsy"} \/ (resp.kind = "list" /\ resp.items = <<>>)
    THEN [st EXCEPT !.pc = "returned"]
    ELSE IF resp.next
    THEN [all_data |-> st.all_data \o resp.items, page |-> st.page + 1, pc |-> "loop"]
    ELSE [st EXCEPT !.pc = "returned"]

PageStep(st, resp) ==
    IF resp.kind = "error"
    THEN [st EXCEPT !.pc = "returned"]                       \* 129-131: except -> break
    ELSE IF resp.kind \in {"null", "nokey"}
    THEN [st EXCEPT !.pc = "returned"]                       \* 133-136: break
    ELSE IF resp.kind = "falsy"
    THEN [st EXCEPT !.pc = "returned"]                       \* 139-143: not a list, falsy
    ELSE IF resp.kind = "list" /\ resp.items = <<>>
    THEN [st EXCEPT !.pc = "returned"]                       \* 145-146: empty list
    ELSE [all_data |-> st.all_data \o resp.items,            \* 141 append / 147 extend
          page     |-> IF resp.next THEN st.page + 1 ELSE st.page,   \* 149-150
          pc       |-> IF resp.next THEN "loop" ELSE "returned"]     \* 151-152

\* _get_all_pages run to its return on a finite listing.
RECURSIVE GetAllPagesFrom(_, _)
GetAllPagesFrom(listing, st) ==
    IF st.pc # "loop" THEN st
    ELSE GetAllPagesFrom(listing, PageStep(st, ServerPage(listing, st.page)))

get_all_pages(listing) ==
    GetAllPagesFrom(listing, [all_data |-> <<>>, page |-> 1, pc |-> "loop"])

(***************************************************************************)
(* Settings (src/src/settings/__init__.py), names transliterated.          *)
(***************************************************************************)
DEFAULT_MIN_LEAD_BUDGET == 100000
PIPELINE_NAME_GOSZAKAZ == "Gos.zakaz - progrev klienta"
STATUS_NAME_POBEDITELI == "Pobediteli"
CUSTOM_FIELD_NAME_INN_LEAD == "INN"
CUSTOM_FIELD_NAME_INN_COMPANY == "INN"
CUSTOM_FIELD_NAME_PURCHASE_LINK_LEAD == "Ssylka na zakupku"
CUSTOM_FIELD_NAME_PURCHASE_NUMBER == "Nomer zakupki"
EXCLUDE_RESPONSIBLE_USERS == <<"Alena", "Novikova Evgeniya">>
USER_NAME_UNSORTED_LEADS == "NERAZOBRANNYE ZAYAVKI"
USER_NAME_DEFAULT_TASK_ASSIGN_POPOVA == "Anastasiya Popova"
TASK_TYPE_NAME_DEFAULT == "Svyazatsya s klientom"

\* Optional[int] = None: ids of the remote are positive, so None and 0 are the
\* only falsy ids and the code never tells them apart before using one.
NoId == 0
\* Optional[str] = None
NoStr == "None"

\* dict.get(key): the value, or None
DictGet(d, k) == IF k \in DOMAIN d THEN d[k] ELSE NoId

\* f restricted to the keys in S
Restrict(f, S) == [k \in (DOMAIN f) \cap S |-> f[k]]

(***************************************************************************)
(* Money.  Optional[float] fields of a record are None or an amount in     *)
(* kopecks; the CRM stores a lead's price as an integer of roubles.        *)
(***************************************************************************)
NoneMoney == [none |-> TRUE, kop |-> 0]
Roubles(n) == [none |-> FALSE, kop |-> n * 100]
Kopecks(k) == [none |-> FALSE, kop |-> k]

\* float(value).is_integer()
IsInteger(m) == m.kop % 100 = 0
\* int(price): truncation (amounts are not negative)
IntOf(m) == m.kop \div 100

(***************************************************************************)
(* The remote catalog the directory is loaded from, and the directories    *)
(* loading can leave behind: _get_all_pages returns a partial listing when *)
(* a page fails, so any of the names may be missing from a loaded map.     *)
(***************************************************************************)
RemoteUsers ==
    (USER_NAME_UNSORTED_LEADS :> 11) @@ (USER_NAME_DEFAULT_TASK_ASSIGN_POPOVA :> 12)
    @@ ("Alena" :> 13) @@ ("Ilya" :> 15)
RemoteLeadFields ==
    (CUSTOM_FIELD_NAME_INN_LEAD :> 21) @@ (CUSTOM_FIELD_NAME_PURCHASE_LINK_LEAD :> 22)
    @@ (CUSTOM_FIELD_NAME_PURCHASE_NUMBER :> 23)
RemoteCompanyFields == (CUSTOM_FIELD_NAME_INN_COMPANY :> 31)
RemotePipelines == (PIPELINE_NAME_GOSZAKAZ :> 1)
RemoteStatuses == (1 :> (STATUS_NAME_POBEDITELI :> 10))

FullDirectory ==
    [pipelines_ids             |-> RemotePipelines,
     statuses_ids              |-> RemoteStatuses,
     users_ids                 |-> RemoteUsers,
     custom_fields_lead_ids    |-> RemoteLeadFields,
     custom_fields_company_ids |-> RemoteCompanyFields,
     task_types_ids            |-> <<>>]

Directories ==
    {FullDirectory}
    \cup {[FullDirectory EXCEPT !.users_ids = Restrict(RemoteUsers, DOMAIN RemoteUsers \ {u})] :
            u \in {USER_NAME_UNSORTED_LEADS, USER_NAME_DEFAULT_TASK_ASSIGN_POPOVA, "Alena"}}
    \cup {[FullDirectory EXCEPT !.custom_fields_lead_ids =
             Restrict(RemoteLeadFields, DOMAIN RemoteLeadFields \ {CUSTOM_FIELD_NAME_PURCHASE_NUMBER})]}
    \cup {[FullDirectory EXCEPT !.custom_fields_company_ids = <<>>]}
    \cup {[FullDirectory EXCEPT !.statuses_ids = (1 :> <<>>)]}
    \cup {[FullDirectory EXCEPT !.pipelines_ids = <<>>, !.statuses_ids = <<>>]}

\* AmoClient.get_pipeline_id / get_status_id / get_user_id (client.py 199-233)
get_pipeline_id(d, pipeline_name) == DictGet(d.pipelines_ids, pipeline_name)
get_status_id(d, pipeline_id, status_name) ==
    IF pipeline_id \in DOMAIN d.statuses_ids
    THEN DictGet(d.statuses_ids[pipeline_id], status_name)
    ELSE NoId
get_user_id(d, user_name) == DictGet(d.users_ids, user_name)

\* process_parsed_data_for_amocrm 331-340: the ids handed to every record
exclude_user_ids_for_filter(d) ==
    {get_user_id(d, EXCLUDE_RESPONSIBLE_USERS[i]) : i \in 1..Len(EXCLUDE_RESPONSIBLE_USERS)} \ {NoId}
id_anastasia_popova(d) == get_user_id(d, USER_NAME_DEFAULT_TASK_ASSIGN_POPOVA)
id_unsorted_leads(d) == get_user_id(d, USER_NAME_UNSORTED_LEADS)

(***************************************************************************)
(* Purchase records (DBStatePurchase, src/src/amo/schemas.py), with the    *)
(* fields the reconciler reads.                                            *)
(***************************************************************************)
Purchase(pn, winner, inn, securing, price) ==
    [purchase_number |-> pn, winner_name |-> winner, inn |-> inn,
     contract_securing |-> securing, winner_price |-> price]

Securings ==
    {NoneMoney, Roubles(0), Roubles(50000), Roubles(500000), Kopecks(50000050), Roubles(600000)}

Purchases ==
    {Purchase("PN-1", w, i, s, p) :
        w \in {"Acme LLC", "", NoStr}, i \in {"7701234567", NoStr},
        s \in Securings, p \in {Roubles(450000), NoneMoney}}

Batches ==
    {<<r>> : r \in Purchases}
    \cup {<<Purchase("PN-1", "Acme LLC", "7701234567", Roubles(500000), p),
            Purchase("PN-2", "Acme LLC", "7701234567", Roubles(600000), Roubles(450000))>> :
            p \in {Roubles(450000), NoneMoney}}

(***************************************************************************)
(* The remote CRM: companies, leads with their notes and linked companies, *)
(* tasks.  An entity's id is its position.                                 *)
(***************************************************************************)
Company(id, name, inn, owner) ==
    [id |-> id, name |-> name, inn |-> inn, responsible_user_id |-> owner]

Lead(id, name, price, owner, pn, comps) ==
    [id |-> id, name |-> name, price |-> price, responsible_user_id |-> owner,
     purchase_number |-> pn, company_ids |-> comps, notes |-> <<>>]

InitialCRMs ==
    {[companies |-> <<>>, leads |-> <<>>],
     [companies |-> <<Company(1, "Acme LLC", "7701234567", 15)>>,
      leads     |-> <<Lead(1, "Acme LLC", 300000, 15, "PN-1", {1})>>],
     [companies |-> <<>>,
      leads     |-> <<Lead(1, "Acme LLC", 500000, 11, "PN-1", {})>>],
     [companies |-> <<Company(1, "Acme LLC", "7701234567", NoId)>>,
      leads     |-> <<Lead(1, "Acme LLC", 300000, NoId, "PN-1", {})>>],
     [companies |-> <<Company(1, "Acme LLC", "7701234567", 13)>>,
      leads     |-> <<>>],
     [companies |-> <<>>,
      leads     |-> <<Lead(1, "Acme LLC", 300000, 13, "PN-1", {})>>],
     \* the same tax id and the same purchase number entered twice
     [companies |-> <<Company(1, "Acme LLC", "7701234567", 15),
                      Company(2, "Acme", "7701234567", 13)>>,
      leads     |-> <<Lead(1, "Acme LLC", 300000, 15, "PN-1", {}),
                      Lead(2, "Acme", 500000, 11, "PN-1", {2})>>]}

(***************************************************************************)
(* Note text (amocrm_processor.py 12-82).  A formatted value keeps what    *)
(* str.isdigit() and string equality depend on.                            *)
(***************************************************************************)
\* format_value on an Optional[float] (23-27)
format_value(m) ==
    IF m.none THEN [kind |-> "not given", kop |-> 0]
    ELSE IF IsInteger(m) THEN [kind |-> "digits", kop |-> IntOf(m) * 100]
    ELSE [kind |-> "two decimals", kop |-> m.kop]

\* format_number_with_spaces raises ValueError unless number_str.isdigit() (32-33)
format_number_raises(f) == f.kind # "digits"

\* generate_note_text_for_win raises when either amount it groups by thousands
\* is None or has a fractional part (59, 62)
note_text_raises(rec) ==
    \/ format_number_raises(format_value(rec.contract_securing))
    \/ format_number_raises(format_value(rec.winner_price))

\* generate_note_text_for_win (52-82): the rendering does not carry the
\* purchase number
generate_note_text_for_win(rec) ==
    [winner_name       |-> rec.winner_name,
     inn               |-> rec.inn,
     contract_securing |-> format_value(rec.contract_securing),
     winner_price      |-> format_value(rec.winner_price)]

(***************************************************************************)
(* Remote requests.  Every request either is served or fails (an error     *)
(* status or a transport failure, raised by AmoClient._request); a failed  *)
(* mutation changes nothing on the remote.                                 *)
(***************************************************************************)
Call(op, entity, price, user, ok) ==
    [op |-> op, entity_id |-> entity, price |-> price, responsible_user_id |-> user, ok |-> ok]

MayFail(ok) == ok \/ failures < MaxFailures
CountFailure(ok) == IF ok THEN failures ELSE failures + 1

\* client.py 88-93: a request that fails times out, or is answered with an
\* error status, 401 among them, which raise_for_status turns into
\* ClientResponseError
AnsweredUnauthorized(ok) == IF ok THEN {unauthorized} ELSE {unauthorized, TRUE}

ErrorPage == [kind |-> "error", items |-> <<>>, next |-> FALSE]

\* GET /companies?query=q and GET /leads?query=q: a free-text search, answered
\* on one page (limit 250), or 204 when nothing matches
SearchListing(matching, ok) ==
    IF ~ok THEN <<ErrorPage>>
    ELSE IF matching = <<>> THEN <<>>
    ELSE <<[kind |-> "list", items |-> matching, next |-> FALSE]>>

CompanyMatchesQuery(c, q) == c.inn = q \/ c.name = q
LeadMatchesQuery(l, q) == l.purchase_number = q \/ l.name = q

(***************************************************************************)
(* AmoClient searches (client.py 272-301, 382-414): the client-side exact  *)
(* filter over what _get_all_pages collected.                              *)
(***************************************************************************)
inn_filter(found, inn) == SelectSeq(found, LAMBDA c : c.inn = inn)

search_companies_by_inn(inn, ok) ==
    inn_filter(get_all_pages(
        SearchListing(SelectSeq(companies, LAMBDA c : CompanyMatchesQuery(c, inn)), ok)).all_data,
        inn)

purchase_number_filter(found, pn) == SelectSeq(found, LAMBDA l : l.purchase_number = pn)

search_leads_by_name(pn, ok) ==
    purchase_number_filter(get_all_pages(
        SearchListing(SelectSeq(leads, LAMBDA l : LeadMatchesQuery(l, pn)), ok)).all_data,
        pn)

(***************************************************************************)
(* _handle_lead_processing (amocrm_processor.py 148-310)                   *)
(***************************************************************************)
InitLoc ==
    [current_lead_id               |-> NoId,
     is_new_lead                   |-> FALSE,
     lead_current_budget           |-> 0,
     budget_changed_during_update  |-> FALSE,
     company_id_to_link            |-> NoId,
     company_responsible_user_id   |-> NoId,
     lead_info_responsible_user_id |-> NoId]

Falsy(str) == str = NoStr \/ str = ""

\* 179: the budget pre-filter
BelowMinLeadBudgetOff(rec) == rec.contract_securing.none

BelowMinLeadBudget(rec) ==
    \/ rec.contract_securing.none
    \/ rec.contract_securing.kop < MIN_LEAD_BUDGET * 100

\* 183-184: the winner-name pre-filter
NoDealNameOnlyNone(rec) == rec.winner_name = NoStr

NoDealName(rec) == Falsy(rec.winner_name)

\* 270 and 281: which request follows once the lead is known
AfterUpdate(l) ==
    IF l.current_lead_id # NoId /\ l.company_id_to_link # NoId THEN "get_linked"  \* 281
    ELSE IF l.current_lead_id # NoId THEN "add_note"                              \* 295
    ELSE "record_done"

AfterLeadAlwaysUpdate(l) ==
    IF l.current_lead_id # NoId /\ ~l.is_new_lead THEN "update_lead" ELSE AfterUpdate(l)

AfterLead(l) ==
    IF l.current_lead_id # NoId /\ ~l.is_new_lead /\ l.budget_changed_during_update
    THEN "update_lead"
    ELSE AfterUpdate(l)

\* 261-268: a lead that could not be created ends the record
AfterCreateLeadGoOn(l, created) == IF created THEN AfterLead(l) ELSE "add_note"

AfterCreateLead(l, created) == IF created THEN AfterLead(l) ELSE "record_done"

\* _create_task 108-131: the assignee of the follow-up task, NoId when the
\* function returns without creating one
task_assigned_to_id(responsible_user_id, is_new_lead, popova, unsorted) ==
    IF responsible_user_id = NoId THEN NoId                               \* 112-114
    ELSE IF is_new_lead /\ responsible_user_id = unsorted /\ popova # NoId
    THEN popova                                                           \* 117-118
    ELSE IF responsible_user_id = unsorted
    THEN popova                                                           \* 121-127
    ELSE responsible_user_id                                              \* 128-129

Rec == batch[idx]

\* 323-329: the target pipeline and the target stage resolve
TargetsResolvedPipelineOnly(d) == get_pipeline_id(d, PIPELINE_NAME_GOSZAKAZ) # NoId

TargetsResolved(d) ==
    LET pipeline_id == get_pipeline_id(d, PIPELINE_NAME_GOSZAKAZ)
    IN  pipeline_id # NoId /\ get_status_id(d, pipeline_id, STATUS_NAME_POBEDITELI) # NoId

\* process_parsed_data_for_amocrm 323-347: a pass starts; without the target
\* pipeline or stage it returns before the first record
StartPass ==
    /\ pc \in {"idle", "interrupted"}
    /\ pass_no < MaxPasses
    /\ pass_no' = pass_no + 1
    /\ IF ~TargetsResolved(dir)
       THEN pc' = "idle" /\ idx' = 0
       ELSE pc' = "record" /\ idx' = 1
    /\ loc' = InitLoc /\ calls' = <<>> /\ raised' = FALSE /\ outcomes' = <<>>
    /\ unauthorized' = FALSE
    /\ UNCHANGED <<plVars, svVars, gpVars, rqVars, srVars, ldVars, cfgVars, crmVars, failures, interrupted>>

\* 173-193: the locals, the two pre-filters, and the choice of the first request
HandleRecord ==
    /\ pc = "record"
    /\ loc' = InitLoc /\ calls' = <<>> /\ raised' = FALSE
    /\ pc' = IF BelowMinLeadBudget(Rec) THEN "record_done"
             ELSE IF NoDealName(Rec) THEN "record_done"
             ELSE IF ~Falsy(Rec.inn) THEN "search_companies"
             ELSE "search_leads"
    /\ UNCHANGED <<plVars, svVars, gpVars, rqVars, srVars, ldVars, cfgVars, crmVars, pass_no, outcomes, interrupted, failures, unauthorized, idx>>

\* 196 and 232-235: of several entities found, the first is taken
last_found(found) == found[Len(found)]

first_found(found) == found[1]

\* 194-205 with search_companies_by_inn (client.py 281-301)
SearchCompanies ==
    /\ pc = "search_companies"
    /\ \E ok \in BOOLEAN :
         /\ MayFail(ok)
         /\ LET resolved == DictGet(dir.custom_fields_company_ids, CUSTOM_FIELD_NAME_INN_LEAD) # NoId
                requested == resolved
                served == IF requested THEN ok ELSE TRUE
                found_companies == IF resolved THEN search_companies_by_inn(Rec.inn, ok) ELSE <<>>
            IN  /\ requested \/ ok
                /\ failures' = CountFailure(served)
                /\ unauthorized' \in AnsweredUnauthorized(served)
                /\ calls' = IF requested
                            THEN Append(calls, Call("search_companies", NoId, <<>>, NoId, ok))
                            ELSE calls
                /\ IF found_companies # <<>>
                   THEN /\ loc' = [loc EXCEPT
                              !.company_id_to_link = first_found(found_companies).id,
                              !.company_responsible_user_id =
                                  first_found(found_companies).responsible_user_id]
                        /\ pc' = IF first_found(found_companies).responsible_user_id
                                      \in exclude_user_ids_for_filter(dir)
                                 THEN "record_done"
                                 ELSE "search_leads"
                   ELSE /\ loc' = loc
                        /\ pc' = "create_company"
    /\ UNCHANGED <<plVars, svVars, gpVars, rqVars, srVars, ldVars, cfgVars, crmVars, pass_no, outcomes, interrupted, idx, raised>>

\* 215-222: a company that could not be created ends the record
AfterCreateCompanyGoOn(created) == "search_leads"

AfterCreateCompany(created) == IF created THEN "search_leads" ELSE "record_done"

\* 206-222 with create_company (client.py 322-379)
CreateCompany ==
    /\ pc = "create_company"
    /\ \E ok \in BOOLEAN :
         /\ MayFail(ok)
         /\ LET owner == id_unsorted_leads(dir)
                inn_field_id == DictGet(dir.custom_fields_company_ids, CUSTOM_FIELD_NAME_INN_COMPANY)
                created == Company(Len(companies) + 1, Rec.winner_name,
                                   IF inn_field_id # NoId THEN Rec.inn ELSE NoStr, owner)
            IN  /\ failures' = CountFailure(ok)
                /\ unauthorized' \in AnsweredUnauthorized(ok)
                /\ calls' = Append(calls, Call("create_company", NoId, <<>>, owner, ok))
                /\ IF ok
                   THEN /\ companies' = Append(companies, created)
                        /\ loc' = [loc EXCEPT
                              !.company_id_to_link = created.id,
                              !.company_responsible_user_id = created.responsible_user_id]
                        /\ pc' = AfterCreateCompany(TRUE)
                   ELSE /\ UNCHANGED <<companies, loc>>
                        /\ pc' = AfterCreateCompany(FALSE)
    /\ UNCHANGED <<plVars, svVars, gpVars, rqVars, srVars, ldVars, cfgVars, leads, tasks, pass_no, outcomes, interrupted, idx, raised>>

\* 224-245 with search_leads_by_name (client.py 391-414)
SearchLeads ==
    /\ pc = "search_leads"
    /\ \E ok \in BOOLEAN :
         /\ MayFail(ok)
         /\ LET resolved == DictGet(dir.custom_fields_lead_ids, CUSTOM_FIELD_NAME_PURCHASE_NUMBER) # NoId
                found_leads == IF resolved THEN search_leads_by_name(Rec.purchase_number, ok) ELSE <<>>
                l == IF found_leads # <<>>
                     THEN [loc EXCEPT
                             !.current_lead_id = first_found(found_leads).id,
                             !.lead_info_responsible_user_id =
                                 first_found(found_leads).responsible_user_id,
                             !.lead_current_budget = first_found(found_leads).price,
                             !.budget_changed_during_update =
                                 (Rec.contract_securing.kop # first_found(found_leads).price * 100)]
                     ELSE [loc EXCEPT !.is_new_lead = TRUE]
            IN  /\ resolved \/ ok
                /\ failures' = CountFailure(IF resolved THEN ok ELSE TRUE)
                /\ unauthorized' \in AnsweredUnauthorized(IF resolved THEN ok ELSE TRUE)
                /\ calls' = IF resolved
                            THEN Append(calls, Call("search_leads", NoId, <<>>, NoId, ok))
                            ELSE calls
                /\ loc' = l
                /\ pc' = IF found_leads # <<>> THEN AfterLead(l) ELSE "create_lead"
    /\ UNCHANGED <<plVars, svVars, gpVars, rqVars, srVars, ldVars, cfgVars, crmVars, pass_no, outcomes, interrupted, idx, raised>>

\* 245-268 with create_lead (client.py 461-493)
CreateLead ==
    /\ pc = "create_lead"
    /\ \E ok \in BOOLEAN :
         /\ MayFail(ok)
         /\ LET owner == IF loc.company_responsible_user_id # NoId
                         THEN loc.company_responsible_user_id
                         ELSE id_unsorted_leads(dir)
                pn_field_id == DictGet(dir.custom_fields_lead_ids, CUSTOM_FIELD_NAME_PURCHASE_NUMBER)
                created == Lead(Len(leads) + 1, Rec.winner_name, IntOf(Rec.contract_securing), owner,
                                IF pn_field_id # NoId THEN Rec.purchase_number ELSE NoStr,
                                IF loc.company_id_to_link # NoId THEN {loc.company_id_to_link} ELSE {})
                l == [loc EXCEPT !.current_lead_id = created.id,
                                 !.lead_info_responsible_user_id = created.responsible_user_id]
            IN  /\ failures' = CountFailure(ok)
                /\ unauthorized' \in AnsweredUnauthorized(ok)
                /\ calls' = Append(calls, Call("create_lead", NoId, <<created.price>>, owner, ok))
                /\ IF ok
                   THEN /\ leads' = Append(leads, created)
                        /\ loc' = l
                        /\ pc' = AfterCreateLead(l, TRUE)
                   ELSE /\ UNCHANGED <<leads, loc>>
                        /\ pc' = AfterCreateLead(loc, FALSE)
    /\ UNCHANGED <<plVars, svVars, gpVars, rqVars, srVars, ldVars, cfgVars, companies, tasks, pass_no, outcomes, interrupted, idx, raised>>

\* update_lead's payload price (client.py 520-521)
update_price_payload(securing) == IntOf(securing)

\* 270-279 with update_lead (client.py 517-548)
UpdateLead ==
    /\ pc = "update_lead"
    /\ \E ok \in BOOLEAN :
         /\ MayFail(ok)
         /\ LET price == update_price_payload(Rec.contract_securing)
            IN  /\ calls' = Append(calls, Call("update_lead", loc.current_lead_id, <<price>>, NoId, ok))
                /\ leads' = IF ok THEN [leads EXCEPT ![loc.current_lead_id].price = price] ELSE leads
         /\ failures' = CountFailure(ok)
         /\ unauthorized' \in AnsweredUnauthorized(ok)
    /\ pc' = AfterUpdate(loc)
    /\ UNCHANGED <<plVars, svVars, gpVars, rqVars, srVars, ldVars, cfgVars, companies, tasks, pass_no, outcomes, interrupted, idx, loc, raised>>

\* 281-285 with get_linked_companies_to_lead (client.py 650-658)
GetLinkedCompanies ==
    /\ pc = "get_linked"
    /\ \E ok \in BOOLEAN :
         /\ MayFail(ok)
         /\ LET linked_company_ids == IF ok THEN leads[loc.current_lead_id].company_ids ELSE {}
            IN  pc' = IF loc.company_id_to_link \notin linked_company_ids
                      THEN "link_company" ELSE "add_note"
         /\ calls' = Append(calls, Call("get_linked", loc.current_lead_id, <<>>, NoId, ok))
         /\ failures' = CountFailure(ok)
         /\ unauthorized' \in AnsweredUnauthorized(ok)
    /\ UNCHANGED <<plVars, svVars, gpVars, rqVars, srVars, ldVars, cfgVars, crmVars, pass_no, outcomes, interrupted, idx, loc, raised>>

\* 286-289 with link_company_to_lead (client.py 670-685)
LinkCompany ==
    /\ pc = "link_company"
    /\ \E ok \in BOOLEAN :
         /\ MayFail(ok)
         /\ calls' = Append(calls, Call("link_company", loc.current_lead_id, <<>>, NoId, ok))
         /\ leads' = IF ok
                     THEN [leads EXCEPT ![loc.current_lead_id].company_ids = @ \cup {loc.company_id_to_link}]
                     ELSE leads
         /\ failures' = CountFailure(ok)
         /\ unauthorized' \in AnsweredUnauthorized(ok)
    /\ pc' = "add_note"
    /\ UNCHANGED <<plVars, svVars, gpVars, rqVars, srVars, ldVars, cfgVars, companies, tasks, pass_no, outcomes, interrupted, idx, loc, raised>>

\* 295-300 with add_note_to_lead (client.py 560-578): the note is posted
\* without reading the notes the lead already has
AddNote ==
    /\ pc = "add_note"
    /\ IF note_text_raises(Rec)
       THEN /\ raised' = TRUE
            /\ pc' = "record_done"
            /\ UNCHANGED <<leads, calls, failures, unauthorized>>
       ELSE \E ok \in BOOLEAN :
              /\ MayFail(ok)
              /\ calls' = Append(calls, Call("add_note", loc.current_lead_id, <<>>, NoId, ok))
              /\ leads' = IF ok
                          THEN [leads EXCEPT ![loc.current_lead_id].notes =
                                                Append(@, generate_note_text_for_win(Rec))]
                          ELSE leads
              /\ failures' = CountFailure(ok)
              /\ unauthorized' \in AnsweredUnauthorized(ok)
              /\ pc' = "create_task"
              /\ raised' = raised
    /\ UNCHANGED <<plVars, svVars, gpVars, rqVars, srVars, ldVars, cfgVars, companies, tasks, pass_no, outcomes, interrupted, idx, loc>>

\* 302-310 with _create_task (108-145) and create_task (client.py 602-639)
CreateTask ==
    /\ pc = "create_task"
    /\ LET assignee == task_assigned_to_id(loc.lead_info_responsible_user_id, loc.is_new_lead,
                                           id_anastasia_popova(dir), id_unsorted_leads(dir))
       IN  IF assignee = NoId
           THEN UNCHANGED <<tasks, calls, failures, unauthorized>>
           ELSE \E ok \in BOOLEAN :
                  /\ MayFail(ok)
                  /\ calls' = Append(calls, Call("create_task", loc.current_lead_id, <<>>, assignee, ok))
                  /\ tasks' = IF ok
                              THEN Append(tasks, [entity_id |-> loc.current_lead_id,
                                                  responsible_user_id |-> assignee])
                              ELSE tasks
                  /\ failures' = CountFailure(ok)
                  /\ unauthorized' \in AnsweredUnauthorized(ok)
    /\ pc' = "record_done"
    /\ UNCHANGED <<plVars, svVars, gpVars, rqVars, srVars, ldVars, cfgVars, companies, leads, pass_no, outcomes, interrupted, idx, loc, raised>>

\* 347-354: try/except around each record: where the pass goes once record i
\* of n is over, returned or raised
AfterRecordAbort(exception, i, n) ==
    IF exception THEN "pass_raised" ELSE IF i < n THEN "record" ELSE "idle"

AfterRecord(exception, i, n) == IF i < n THEN "record" ELSE "idle"

\* 347-354: the loop goes on to the next record, whatever happened to this one
NextRecord ==
    /\ pc = "record_done"
    /\ pc' = AfterRecord(raised, idx, Len(batch))
    /\ idx' = IF pc' = "record" THEN idx + 1 ELSE idx
    /\ outcomes' = Append(outcomes, IF raised THEN "raised" ELSE "returned")
    /\ UNCHANGED <<plVars, svVars, gpVars, rqVars, srVars, ldVars, cfgVars, crmVars, pass_no, failures, unauthorized, interrupted, loc, calls, raised>>

\* main.py 102-105: the process is stopped (KeyboardInterrupt, CancelledError)
\* while a record is being handled; what the remote system stores stays, and
\* the next start of the program handles the most recent file from its first
\* record (36, 56-58: last_processed_extraction_dt starts as None)
Interrupt ==
    /\ pc \notin {"idle", "parked", "interrupted", "pass_raised"}
    /\ Len(interrupted) < MaxInterrupts
    /\ pass_no < MaxPasses
    /\ interrupted' = Append(interrupted, [pc |-> pc, idx |-> idx, loc |-> loc])
    /\ pc' = "interrupted"
    /\ UNCHANGED <<plVars, svVars, gpVars, rqVars, srVars, ldVars, cfgVars, crmVars, pass_no, outcomes, failures, unauthorized, idx, loc, calls, raised>>

(***************************************************************************)
(* Spec: passes over an unchanged batch.                                   *)
(***************************************************************************)
\* datetime of a file name, as a stamp 1, 2, ...; Optional[datetime] = None
NoStamp == 0
\* get_most_recent_file found nothing
NoFile == [dt |-> NoStamp, rows |-> 0, valid |-> FALSE]

\* the polling loop is not running
PollParked ==
    /\ last_processed_extraction_dt = NoStamp
    /\ mail = NoFile
    /\ polls = 0
    /\ pl_pc = "parked"
    /\ current_file_extraction_dt = NoStamp
    /\ pl_initialized = FALSE
    /\ pl_rec = 0
    /\ polled = <<>>
    /\ sessions = <<>>

\* the pipeline service is not running
ServiceParked ==
    /\ svc_stages = <<>>
    /\ svc_leads = {}
    /\ svc_ids = <<>>
    /\ svc_pc = "parked"
    /\ svc_requests = <<>>

\* params: Optional[Dict[str, Any]] = None (client.py 110)
NoParams == [none |-> TRUE, dict |-> <<>>]
Params(dict) == [none |-> FALSE, dict |-> dict]

PagesParked ==
    /\ gp_listing = <<>>
    /\ gp_page = 1
    /\ gp_all_data = <<>>
    /\ gp_pc = "returned"
    /\ gp_requests = <<>>
    /\ gp_params = NoParams
    /\ gp_queries = <<>>

\* no search result is being filtered
SrParked ==
    /\ sr_companies = <<>>
    /\ sr_inn = NoStr
    /\ sr_pc = "parked"
    /\ sr_found = <<>>

\* no operation of the client is followed down to its request
RqParked ==
    /\ rq_op = "none"
    /\ rq_answer = <<>>
    /\ rq_pc = "parked"
    /\ rq_sent = 0
    /\ rq_acquired = 0
    /\ rq_result = <<>>

\* the client of a run that is not about loading: loaded, in use
DirParked ==
    /\ ld_catalog = <<>>
    /\ initialized_ids = TRUE
    /\ ld_pc = "parked"
    /\ ld_requests = <<>>
    /\ ld_calls = 0

Init ==
    /\ PollParked
    /\ ServiceParked
    /\ SrParked
    /\ PagesParked
    /\ DirParked
    /\ RqParked
    /\ MIN_LEAD_BUDGET \in {0, DEFAULT_MIN_LEAD_BUDGET}
    /\ dir \in Directories
    /\ batch \in Batches
    /\ \E crm \in InitialCRMs : companies = crm.companies /\ leads = crm.leads
    /\ tasks = <<>>
    /\ pass_no = 0
    /\ failures = 0 /\ unauthorized = FALSE
    /\ pc = "idle"
    /\ idx = 0
    /\ loc = InitLoc
    /\ calls = <<>>
    /\ raised = FALSE
    /\ outcomes = <<>>
    /\ interrupted = <<>>

Next ==
    \/ StartPass
    \/ HandleRecord
    \/ SearchCompanies
    \/ CreateCompany
    \/ SearchLeads
    \/ CreateLead
    \/ UpdateLead
    \/ GetLinkedCompanies
    \/ LinkCompany
    \/ AddNote
    \/ CreateTask
    \/ NextRecord

Spec == Init /\ [][Next]_vars

(***************************************************************************)
(* SpecResume: the passes of Spec in the default configuration, where a    *)
(* pass can be cut short by a stop of the process and the next start takes *)
(* the batch again.                                                        *)
(***************************************************************************)
InitResume ==
    /\ Init
    /\ MIN_LEAD_BUDGET = DEFAULT_MIN_LEAD_BUDGET
    /\ dir = FullDirectory

NextResume ==
    \/ Next
    \/ Interrupt

SpecResume == InitResume /\ [][NextResume]_vars

(***************************************************************************)
(* SpecPages: the loop, one request per step.                              *)
(***************************************************************************)
RunParked ==
    /\ MIN_LEAD_BUDGET = DEFAULT_MIN_LEAD_BUDGET
    /\ dir = FullDirectory
    /\ batch = <<>>
    /\ companies = <<>> /\ leads = <<>> /\ tasks = <<>>
    /\ pass_no = 0 /\ failures = 0 /\ unauthorized = FALSE /\ pc = "parked" /\ idx = 0
    /\ loc = InitLoc /\ calls = <<>> /\ raised = FALSE /\ outcomes = <<>> /\ interrupted = <<>>

\* 126: the page size of every request
PAGE_LIMIT == 250

\* what the callers pass: nothing, an empty dictionary, a search query (the
\* value stands for the text searched)
CallerParams == {NoParams, Params(<<>>), Params("query" :> 7701)}

\* 124-126: the query of the request of `page`
current_params(params, page) ==
    ("page" :> page) @@ ("limit" :> PAGE_LIMIT)
    @@ (IF params.none THEN <<>> ELSE params.dict)

\* 124: `params.copy() if params else {}`: the caller's dictionary after the
\* query of `page` was built
params_after_query_aliased(params, page) ==
    IF params.none \/ DOMAIN params.dict = {} THEN params
    ELSE Params(current_params(params, page))

params_after_query(params, page) == params

InitPages ==
    /\ PollParked
    /\ ServiceParked
    /\ SrParked
    /\ RunParked
    /\ DirParked
    /\ RqParked
    /\ gp_listing \in Listings(MaxPages)
    /\ gp_page = 1
    /\ gp_all_data = <<>>
    /\ gp_pc = "loop"
    /\ gp_requests = <<>>
    /\ gp_params \in CallerParams
    /\ gp_queries = <<>>

RequestPage ==
    /\ gp_pc = "loop"
    /\ LET st == PageStep([all_data |-> gp_all_data, page |-> gp_page, pc |-> gp_pc],
                          ServerPage(gp_listing, gp_page))
       IN  /\ gp_all_data' = st.all_data
           /\ gp_page' = st.page
           /\ gp_pc' = st.pc
    /\ gp_requests' = Append(gp_requests, gp_page)
    /\ gp_queries' = Append(gp_queries, current_params(gp_params, gp_page))
    /\ gp_params' = params_after_query(gp_params, gp_page)
    /\ UNCHANGED <<plVars, svVars, gp_listing, ldVars, rqVars, srVars, cfgVars, crmVars, runVars>>

NextPages == RequestPage

SpecPages == InitPages /\ [][NextPages]_vars

\* the loop is the only thing the coroutine does: a request that can be sent
\* is sent
SpecPagesFair == InitPages /\ [][NextPages]_vars /\ WF_vars(RequestPage)

(***************************************************************************)
(* SpecDir: one AmoClient from its construction: __aenter__ calls          *)
(* _ensure_ids_initialized (client.py 157-196), one sweep per step, then   *)
(* the batch is handed to process_parsed_data_for_amocrm (main.py 78-79).  *)
(***************************************************************************)
MaxEnsureCalls == 2  \* calls of _ensure_ids_initialized on one client

\* settings names read at client.py 184-187
CUSTOM_FIELD_NAME_COMPANY_PHONE == "Telefon"
CUSTOM_FIELD_NAME_COMPANY_EMAIL == "Email"

\* the items of the remote catalog, in the order the server lists them
Item(name, id) == [name |-> name, id |-> id]
PipelineItem(name, id, statuses) == [name |-> name, id |-> id, statuses |-> statuses]

RemoteTaskTypes == (TASK_TYPE_NAME_DEFAULT :> 41)

CatalogItems ==
    [pipelines      |-> <<PipelineItem(PIPELINE_NAME_GOSZAKAZ, 1,
                                       <<Item(STATUS_NAME_POBEDITELI, 10)>>)>>,
     users          |-> <<Item("Alena", 13), Item(USER_NAME_UNSORTED_LEADS, 11),
                          Item(USER_NAME_DEFAULT_TASK_ASSIGN_POPOVA, 12), Item("Ilya", 15)>>,
     lead_fields    |-> <<Item(CUSTOM_FIELD_NAME_INN_LEAD, 21),
                          Item(CUSTOM_FIELD_NAME_PURCHASE_LINK_LEAD, 22),
                          Item(CUSTOM_FIELD_NAME_PURCHASE_NUMBER, 23)>>,
     company_fields |-> <<Item(CUSTOM_FIELD_NAME_INN_COMPANY, 31)>>,
     task_types     |-> <<Item(TASK_TYPE_NAME_DEFAULT, 41)>>]

ListPage(items, next) == [kind |-> "list", items |-> items, next |-> next]

\* how the server may answer the sweep of an endpoint that holds `its`: on one
\* page, with a failing first page, on two pages, with a failing second page,
\* or with an item that has no name
CatalogListings(its) ==
    LET h == (Len(its) + 1) \div 2
        head == SubSeq(its, 1, h)
        rest == SubSeq(its, h + 1, Len(its))
    IN  {<<ListPage(its, FALSE)>>,
         <<ErrorPage>>,
         <<ListPage(head, TRUE), ListPage(rest, FALSE)>>,
         <<ListPage(head, TRUE), ErrorPage>>,
         <<ListPage(<<[id |-> 99]>>, FALSE)>>}

Catalogs ==
    [pipelines      : CatalogListings(CatalogItems.pipelines),
     users          : CatalogListings(CatalogItems.users),
     lead_fields    : CatalogListings(CatalogItems.lead_fields),
     company_fields : CatalogListings(CatalogItems.company_fields),
     task_types     : {<<ListPage(CatalogItems.task_types, FALSE)>>}]

\* AmoClient.__init__ 35-42
EmptyDirectory ==
    [pipelines_ids             |-> <<>>,
     statuses_ids              |-> <<>>,
     users_ids                 |-> <<>>,
     custom_fields_lead_ids    |-> <<>>,
     custom_fields_company_ids |-> <<>>,
     task_types_ids            |-> <<>>]

\* `for x in data: ids[x['name']] = x['id']`: a KeyError on an item without a
\* name leaves the entries written before it
RECURSIVE LoadNames(_, _)
LoadNames(m, items) ==
    IF items = <<>> THEN [ids |-> m, raised |-> FALSE]
    ELSE IF ~({"name", "id"} \subseteq DOMAIN Head(items)) THEN [ids |-> m, raised |-> TRUE]
    ELSE LoadNames((Head(items).name :> Head(items).id) @@ m, Tail(items))

\* 168-170: pipelines with their nested statuses
RECURSIVE LoadPipelineItems(_, _)
LoadPipelineItems(d, items) ==
    IF items = <<>> THEN [dir |-> d, raised |-> FALSE]
    ELSE IF ~({"name", "id"} \subseteq DOMAIN Head(items)) THEN [dir |-> d, raised |-> TRUE]
    ELSE LET p == Head(items)
             statuses == IF "statuses" \in DOMAIN p THEN p.statuses ELSE <<>>
         IN  LoadPipelineItems(
                 [d EXCEPT !.pipelines_ids = (p.name :> p.id) @@ @,
                           !.statuses_ids  = (p.id :> LoadNames(<<>>, statuses).ids) @@ @],
                 Tail(items))

\* 184-187: the phone and e-mail fields are entered by name, None when absent
WithPhoneAndEmail(m) ==
    (CUSTOM_FIELD_NAME_COMPANY_PHONE :> DictGet(m, CUSTOM_FIELD_NAME_COMPANY_PHONE))
    @@ (CUSTOM_FIELD_NAME_COMPANY_EMAIL :> DictGet(m, CUSTOM_FIELD_NAME_COMPANY_EMAIL))
    @@ m

\* the requests _get_all_pages sends to drain `listing`: pages 1 .. the last
SweepRequests(endpoint, listing) ==
    [i \in 1..get_all_pages(listing).page |-> <<endpoint, i>>]

\* 163: the loaded flag decides whether the call loads anything
NeedsLoadingAlways(flag) == TRUE

NeedsLoading(flag) == ~flag

\* 163-165
CallEnsure ==
    /\ ld_pc \in {"new", "loaded"}
    /\ ld_calls < MaxEnsureCalls
    /\ ld_calls' = ld_calls + 1
    /\ ld_pc' = IF NeedsLoading(initialized_ids) THEN "pipelines" ELSE "loaded"
    /\ UNCHANGED <<plVars, svVars, gpVars, rqVars, srVars, ld_catalog, initialized_ids, ld_requests, cfgVars, crmVars, runVars>>

\* 167-170
LoadPipelines ==
    /\ ld_pc = "pipelines"
    /\ LET pipelines_data == get_all_pages(ld_catalog.pipelines).all_data
           loaded == LoadPipelineItems(dir, pipelines_data)
       IN  /\ dir' = loaded.dir
           /\ ld_pc' = IF loaded.raised THEN "raised" ELSE "users"
    /\ ld_requests' = ld_requests \o SweepRequests("pipelines", ld_catalog.pipelines)
    /\ UNCHANGED <<plVars, svVars, gpVars, rqVars, srVars, ld_catalog, initialized_ids, ld_calls, MIN_LEAD_BUDGET, batch,
                   crmVars, runVars>>

\* 172-174
LoadUsers ==
    /\ ld_pc = "users"
    /\ LET users_data == get_all_pages(ld_catalog.users).all_data
           loaded == LoadNames(dir.users_ids, users_data)
       IN  /\ dir' = [dir EXCEPT !.users_ids = loaded.ids]
           /\ ld_pc' = IF loaded.raised THEN "raised" ELSE "lead_fields"
    /\ ld_requests' = ld_requests \o SweepRequests("users", ld_catalog.users)
    /\ UNCHANGED <<plVars, svVars, gpVars, rqVars, srVars, ld_catalog, initialized_ids, ld_calls, MIN_LEAD_BUDGET, batch,
                   crmVars, runVars>>

\* 176-178
LoadLeadFields ==
    /\ ld_pc = "lead_fields"
    /\ LET lead_fields_data == get_all_pages(ld_catalog.lead_fields).all_data
           loaded == LoadNames(dir.custom_fields_lead_ids, lead_fields_data)
       IN  /\ dir' = [dir EXCEPT !.custom_fields_lead_ids = loaded.ids]
           /\ ld_pc' = IF loaded.raised THEN "raised" ELSE "company_fields"
    /\ ld_requests' = ld_requests \o SweepRequests("lead_fields", ld_catalog.lead_fields)
    /\ UNCHANGED <<plVars, svVars, gpVars, rqVars, srVars, ld_catalog, initialized_ids, ld_calls, MIN_LEAD_BUDGET, batch,
                   crmVars, runVars>>

\* 180-193: the company fields, then the task types are set empty without a
\* sweep and the flag is raised
LoadCompanyFields ==
    /\ ld_pc = "company_fields"
    /\ LET company_fields_data == get_all_pages(ld_catalog.company_fields).all_data
           loaded == LoadNames(dir.custom_fields_company_ids, company_fields_data)
       IN  IF loaded.raised
           THEN /\ dir' = [dir EXCEPT !.custom_fields_company_ids = loaded.ids]
                /\ ld_pc' = "raised"
                /\ UNCHANGED initialized_ids
           ELSE /\ dir' = [dir EXCEPT !.custom_fields_company_ids = WithPhoneAndEmail(loaded.ids),
                                      !.task_types_ids = <<>>]
                /\ initialized_ids' = TRUE
                /\ ld_pc' = "loaded"
    /\ ld_requests' = ld_requests \o SweepRequests("company_fields", ld_catalog.company_fields)
    /\ UNCHANGED <<plVars, svVars, gpVars, rqVars, srVars, ld_catalog, ld_calls, MIN_LEAD_BUDGET, batch, crmVars, runVars>>

\* main.py 78-79: __aenter__ returned, the batch is processed with this client
Process ==
    /\ ld_pc = "loaded"
    /\ ld_pc' = "processing"
    /\ UNCHANGED <<plVars, svVars, gpVars, rqVars, srVars, ld_catalog, initialized_ids, ld_requests, ld_calls, cfgVars,
                   crmVars, runVars>>

\* the users of the CRM once the account changes under a running session:
\* the user Alena has been created anew, under another id
ChangedUsers ==
    <<ListPage(<<Item("Alena", 14)>> \o Tail(CatalogItems.users), FALSE)>>

\* the CRM account changes while the client holds its loaded directory
RemoteChanges ==
    /\ ld_pc \in {"loaded", "processing"}
    /\ ld_catalog.users # ChangedUsers
    /\ ld_catalog' = [ld_catalog EXCEPT !.users = ChangedUsers]
    /\ UNCHANGED <<plVars, svVars, gpVars, rqVars, srVars, initialized_ids, ld_pc, ld_requests, ld_calls, cfgVars,
                   crmVars, runVars>>

InitDir ==
    /\ PollParked
    /\ ServiceParked
    /\ SrParked
    /\ PagesParked
    /\ RqParked
    /\ MIN_LEAD_BUDGET = DEFAULT_MIN_LEAD_BUDGET
    /\ batch = <<>>
    /\ companies = <<>> /\ leads = <<>> /\ tasks = <<>>
    /\ pass_no = 0 /\ failures = 0 /\ unauthorized = FALSE /\ pc = "parked" /\ idx = 0
    /\ loc = InitLoc /\ calls = <<>> /\ raised = FALSE /\ outcomes = <<>> /\ interrupted = <<>>
    /\ ld_catalog \in Catalogs
    /\ initialized_ids = FALSE
    /\ dir = EmptyDirectory
    /\ ld_pc = "new"
    /\ ld_requests = <<>>
    /\ ld_calls = 0

NextDir ==
    \/ CallEnsure
    \/ LoadPipelines
    \/ LoadUsers
    \/ LoadLeadFields
    \/ LoadCompanyFields
    \/ Process
    \/ RemoteChanges

SpecDir == InitDir /\ [][NextDir]_vars

(***************************************************************************)
(* SpecRequest: one operation of the client down to AmoClient._request     *)
(* (client.py 65-107): the rate-limit gate, the HTTP request, the answer.  *)
(***************************************************************************)
\* the operations, each of which reaches the server through _request only
Operations ==
    {"get_page", "create_company", "create_lead", "update_lead", "add_note",
     "create_task", "get_linked", "link_company"}

\* statuses a response can carry (redirects with a Location are followed by
\* the HTTP library and never seen; 300 and 304 are delivered)
Statuses == {200, 201, 204, 300, 304, 400, 401, 404, 429, 500, 503}

\* the answers: a response with a status and a body that parses as JSON or
\* does not, or no response at all (timeout, connection reset)
Answers ==
    {[kind |-> "response", status |-> st, json |-> j] : st \in Statuses, j \in BOOLEAN}
    \cup {[kind |-> "transport failure", status |-> 0, json |-> FALSE]}

NoResult == [kind |-> "none", status |-> 0]

\* 90-107: what _request does with the answer
request_outcome(answer) ==
    IF answer.kind # "response"
    THEN [kind |-> "raised", status |-> 0]                         \* 104-106
    ELSE IF 200 <= answer.status /\ answer.status < 300            \* 91
    THEN IF answer.status = 204
         THEN [kind |-> "null", status |-> 204]                    \* 92-93
         ELSE IF answer.json
         THEN [kind |-> "json", status |-> answer.status]          \* 94
         ELSE [kind |-> "raised", status |-> answer.status]        \* 94: json() raises
    ELSE IF answer.status >= 400
    THEN [kind |-> "raised", status |-> answer.status]             \* 100: raise_for_status
    ELSE [kind |-> "null", status |-> answer.status]               \* 100 passes, 107

\* where an operation starts: create_task takes the gate itself (624) before
\* it calls _request, every other operation calls _request at once
FirstStepUngated(op) == "send"

FirstStep(op) == IF op = "create_task" THEN "outer_gate" ELSE "request"

\* 101-106: a failed attempt is raised to the caller, a served one returned
AfterAttemptRetryOnce(outcome, sent) ==
    IF outcome.kind = "raised" THEN (IF sent < 2 THEN "send" ELSE "raised") ELSE "returned"

AfterAttempt(outcome, sent) ==
    IF outcome.kind = "raised" THEN "raised" ELSE "returned"

\* an operation of the client is called
CallOperation ==
    /\ rq_pc = "called"
    /\ rq_pc' = FirstStep(rq_op)
    /\ UNCHANGED <<plVars, svVars, gpVars, ldVars, srVars, rq_op, rq_answer, rq_sent, rq_acquired, rq_result,
                   cfgVars, crmVars, runVars>>

\* 624: create_task enters self._rate_limit, then calls _request
EnterOuterGate ==
    /\ rq_pc = "outer_gate"
    /\ rq_acquired' = rq_acquired + 1
    /\ rq_pc' = "request"
    /\ UNCHANGED <<plVars, svVars, gpVars, ldVars, srVars, rq_op, rq_answer, rq_sent, rq_result,
                   cfgVars, crmVars, runVars>>

\* 81: _request enters self._rate_limit
EnterGate ==
    /\ rq_pc = "request"
    /\ rq_acquired' = rq_acquired + 1
    /\ rq_pc' = "send"
    /\ UNCHANGED <<plVars, svVars, gpVars, ldVars, srVars, rq_op, rq_answer, rq_sent, rq_result,
                   cfgVars, crmVars, runVars>>

\* 89: the HTTP request is sent
SendRequest ==
    /\ rq_pc = "send"
    /\ rq_sent' = rq_sent + 1
    /\ rq_pc' = "respond"
    /\ UNCHANGED <<plVars, svVars, gpVars, ldVars, srVars, rq_op, rq_answer, rq_acquired, rq_result,
                   cfgVars, crmVars, runVars>>

\* 90-107: the answer is turned into a return value or an exception
Respond ==
    /\ rq_pc = "respond"
    /\ rq_result' = request_outcome(rq_answer)
    /\ rq_pc' = AfterAttempt(request_outcome(rq_answer), rq_sent)
    /\ UNCHANGED <<plVars, svVars, gpVars, ldVars, srVars, rq_op, rq_answer, rq_sent, rq_acquired,
                   cfgVars, crmVars, runVars>>

InitRequest ==
    /\ PollParked
    /\ ServiceParked
    /\ SrParked
    /\ PagesParked
    /\ DirParked
    /\ RunParked
    /\ rq_op \in Operations
    /\ rq_answer \in Answers
    /\ rq_pc = "called"
    /\ rq_sent = 0
    /\ rq_acquired = 0
    /\ rq_result = NoResult

NextRequest ==
    \/ CallOperation
    \/ EnterOuterGate
    \/ EnterGate
    \/ SendRequest
    \/ Respond

SpecRequest == InitRequest /\ [][NextRequest]_vars

(***************************************************************************)
(* SpecSearch: the client-side filter of search_companies_by_inn           *)
(* (client.py 291-301) over the companies a free-text search returned, as  *)
(* the server renders them: 'custom_fields_values' is a list of fields     *)
(* with their values, null for a company without custom fields, or absent. *)
(* (inn_filter above is this filter on companies that carry the tax id     *)
(* field.)                                                                 *)
(***************************************************************************)
MaxFound == 2        \* companies in a search result

TaxIds == {"7701234567", "5009876543"}

\* one custom field of a company: the tax id field (31) or another (32)
FieldValues ==
    {[field_id |-> f, values |-> v] :
        f \in {31, 32},
        v \in {<<"7701234567">>, <<"5009876543">>, <<"5009876543", "7701234567">>}}

CustomFieldsValues ==
    {[kind |-> "absent", fields |-> <<>>], [kind |-> "null", fields |-> <<>>],
     [kind |-> "list", fields |-> <<>>]}
    \cup {[kind |-> "list", fields |-> <<a>>] : a \in FieldValues}
    \cup {[kind |-> "list", fields |-> ab] :
            ab \in {x \in FieldValues \X FieldValues : x[1].field_id # x[2].field_id}}

RECURSIVE SearchResults(_)
SearchResults(n) ==
    IF n = 0 THEN {<<>>}
    ELSE LET shorter == SearchResults(n - 1)
         IN  shorter \cup {Append(r, [id |-> n, custom_fields_values |-> c]) :
                             r \in {t \in shorter : Len(t) = n - 1},
                             c \in CustomFieldsValues}

\* 296-299: `for value in cf_value['values']: if value['value'] == inn`
HasValue(values, inn) == \E i \in 1..Len(values) : values[i] = inn

\* 294-300 on one company: the first field with the id of the tax id field
\* decides; "raises" when 'custom_fields_values' is null (iterating None)
RECURSIVE FieldsHaveInn(_, _, _)
FieldsHaveInn(fields, inn_field_id, inn) ==
    IF fields = <<>> THEN FALSE
    ELSE IF Head(fields).field_id = inn_field_id
    THEN HasValue(Head(fields).values, inn)
    ELSE FieldsHaveInn(Tail(fields), inn_field_id, inn)

CompanyHasInn(company, inn_field_id, inn) ==
    IF company.custom_fields_values.kind = "absent" THEN "no"               \* 293
    ELSE IF company.custom_fields_values.kind = "null" THEN "raises"        \* 294
    ELSE IF FieldsHaveInn(company.custom_fields_values.fields, inn_field_id, inn)
    THEN "yes" ELSE "no"

\* 291-301: the loop over the companies, in search order
RECURSIVE filter_companies_by_inn(_, _, _, _)
filter_companies_by_inn(found_companies, rest, inn_field_id, inn) ==
    IF rest = <<>> THEN [pc |-> "returned", found_companies |-> found_companies]
    ELSE LET has == CompanyHasInn(Head(rest), inn_field_id, inn)
         IN  IF has = "raises" THEN [pc |-> "raised", found_companies |-> found_companies]
             ELSE filter_companies_by_inn(
                      IF has = "yes" THEN Append(found_companies, Head(rest)) ELSE found_companies,
                      Tail(rest), inn_field_id, inn)

FilterCompanies ==
    /\ sr_pc = "called"
    /\ LET inn_field_id == DictGet(dir.custom_fields_company_ids, CUSTOM_FIELD_NAME_INN_LEAD)
           out == filter_companies_by_inn(<<>>, sr_companies, inn_field_id, sr_inn)
       IN  /\ sr_pc' = out.pc
           /\ sr_found' = out.found_companies
    /\ UNCHANGED <<plVars, svVars, gpVars, ldVars, rqVars, sr_companies, sr_inn, cfgVars, crmVars, runVars>>

InitSearch ==
    /\ PollParked
    /\ ServiceParked
    /\ PagesParked
    /\ DirParked
    /\ RqParked
    /\ RunParked
    /\ sr_companies \in SearchResults(MaxFound)
    /\ sr_inn \in TaxIds
    /\ sr_pc = "called"
    /\ sr_found = <<>>

NextSearch == FilterCompanies

SpecSearch == InitSearch /\ [][NextSearch]_vars

(***************************************************************************)
(* SpecPoll: the polling loop of main (src/main.py 44-101).  A file is its *)
(* extraction timestamp (parsed from its name), its number of rows and     *)
(* whether its rows validate.  What a session does for one record is the   *)
(* matter of Spec; here a record is handled, or fails on the transport.    *)
(***************************************************************************)
MaxPolls == 2        \* iterations of the polling loop
MaxStamp == 2        \* distinct extraction timestamps
MaxRows == 1         \* rows of a file

Files == [dt : 1..MaxStamp, rows : 0..MaxRows, valid : BOOLEAN]

\* the four endpoints _ensure_ids_initialized sweeps (client.py 167-182)
DirectoryEndpoints == {"pipelines", "users", "lead_fields", "company_fields"}

\* 55-63: the first file, or a file strictly newer than the last one handled
process_this_file_not_older(last, current) == last = NoStamp \/ current >= last

process_this_file(last, current) == last = NoStamp \/ current > last

Session(poll, file) ==
    [poll |-> poll, dt |-> file.dt, rows |-> file.rows, sweeps |-> {}, outcomes |-> <<>>,
     closed |-> FALSE]

\* a mail with a file arrives: get_most_recent_file (mail_connector.py 85-238)
\* returns the newest attachment of the mailbox
Deliver ==
    /\ pl_pc = "sleep"
    /\ mail' \in Files \ {mail}
    /\ UNCHANGED <<gpVars, ldVars, rqVars, srVars, svVars, cfgVars, crmVars, runVars,
                   last_processed_extraction_dt, polls, pl_pc, current_file_extraction_dt,
                   pl_initialized, pl_rec, polled, sessions>>

\* 45-101, one iteration up to the opening of the session: no file (47, 84-85,
\* 97-98), a file that is not newer (62-63), rows that do not validate (68,
\* 97-98), no rows (80-83), or a client is made for the batch (77; client.py 35)
Poll ==
    /\ pl_pc = "sleep"
    /\ polls < MaxPolls
    /\ polls' = polls + 1
    /\ LET decided == mail # NoFile /\ process_this_file(last_processed_extraction_dt, mail.dt)
       IN  /\ polled' = Append(polled, [dt |-> mail.dt, last |-> last_processed_extraction_dt,
                                        process_this_file |-> decided])
           /\ IF ~decided \/ ~mail.valid
              THEN UNCHANGED <<last_processed_extraction_dt, pl_pc, current_file_extraction_dt,
                               pl_initialized, pl_rec, sessions>>
              ELSE IF mail.rows = 0
              THEN /\ last_processed_extraction_dt' = mail.dt
                   /\ UNCHANGED <<pl_pc, current_file_extraction_dt, pl_initialized, pl_rec, sessions>>
              ELSE /\ pl_pc' = "enter"
                   /\ current_file_extraction_dt' = mail.dt
                   /\ pl_initialized' = FALSE
                   /\ pl_rec' = 1
                   /\ sessions' = Append(sessions, Session(polls + 1, mail))
                   /\ UNCHANGED last_processed_extraction_dt
    /\ UNCHANGED <<gpVars, ldVars, rqVars, srVars, svVars, cfgVars, crmVars, runVars, mail>>

\* main.py 77-79 and 97-98: where the iteration goes from the opening of the
\* session: a loading that raised leaves the iteration through the except
AfterEnterIgnoringFailure(loaded, resolved) == IF resolved THEN "records" ELSE "exit"

AfterEnter(loaded, resolved) ==
    IF ~loaded THEN "sleep" ELSE IF resolved THEN "records" ELSE "exit"

\* AmoClient.__aenter__ (client.py 45-54) with _ensure_ids_initialized
\* (163-196) and the lookups of process_parsed_data_for_amocrm (323-329): the
\* sweeps are made unless the flag is set; a loading that raises ends the
\* iteration at main.py 97-98, a pipeline or stage that does not resolve ends
\* the batch before its first record
EnterSession ==
    /\ pl_pc = "enter"
    /\ \E loaded \in BOOLEAN, resolved \in BOOLEAN :
         /\ sessions' = [sessions EXCEPT ![Len(sessions)] =
                [@ EXCEPT !.sweeps = IF NeedsLoading(pl_initialized)
                                     THEN DirectoryEndpoints ELSE {},
                          !.closed = ~loaded]]
         /\ pl_initialized' = (pl_initialized \/ loaded)
         /\ pl_pc' = AfterEnter(loaded, resolved)
    /\ UNCHANGED <<gpVars, ldVars, rqVars, srVars, svVars, cfgVars, crmVars, runVars,
                   last_processed_extraction_dt, mail, polls, current_file_extraction_dt,
                   pl_rec, polled>>

\* amocrm_processor.py 346-354: one record of the batch; whatever happens to
\* it (a request that fails on the transport is logged by the client, an
\* exception is logged by the loop), the loop goes on
ProcessRecord ==
    /\ pl_pc = "records"
    /\ \E outcome \in {"handled", "failed"} :
         sessions' = [sessions EXCEPT ![Len(sessions)].outcomes = Append(@, outcome)]
    /\ pl_rec' = pl_rec + 1
    /\ pl_pc' = IF pl_rec < sessions[Len(sessions)].rows THEN "records" ELSE "exit"
    /\ UNCHANGED <<gpVars, ldVars, rqVars, srVars, svVars, cfgVars, crmVars, runVars,
                   last_processed_extraction_dt, mail, polls, current_file_extraction_dt,
                   pl_initialized, polled>>

\* main.py 78-83 and 100-101: the session is left and the timestamp of the
\* file is kept as the last one handled, whatever became of its records
ExitSession ==
    /\ pl_pc = "exit"
    /\ last_processed_extraction_dt' = current_file_extraction_dt
    /\ sessions' = [sessions EXCEPT ![Len(sessions)].closed = TRUE]
    /\ pl_pc' = "sleep"
    /\ UNCHANGED <<gpVars, ldVars, rqVars, srVars, svVars, cfgVars, crmVars, runVars,
                   mail, polls, current_file_extraction_dt, pl_initialized, pl_rec, polled>>

InitPoll ==
    /\ SrParked
    /\ PagesParked
    /\ DirParked
    /\ RqParked
    /\ RunParked
    /\ ServiceParked
    /\ last_processed_extraction_dt = NoStamp
    /\ mail \in Files \cup {NoFile}
    /\ polls = 0
    /\ pl_pc = "sleep"
    /\ current_file_extraction_dt = NoStamp
    /\ pl_initialized = FALSE
    /\ pl_rec = 0
    /\ polled = <<>>
    /\ sessions = <<>>

NextPoll ==
    \/ Deliver
    \/ Poll
    \/ EnterSession
    \/ ProcessRecord
    \/ ExitSession

SpecPoll == InitPoll /\ [][NextPoll]_vars

(***************************************************************************)
(* SpecService: run_pipeline_optimization_tests                            *)
(* (src/run_pipeline_optimization.py) with the pipeline service            *)
(* (src/src/services/amo_pipeline_services.py).  The service calls         *)
(* get_pipelines_with_statuses, get_users, get_leads, delete_lead,         *)
(* update_leads_batch and delete_pipeline_status on the client; they are   *)
(* taken by their call sites: the queries answer with what the CRM holds,  *)
(* a deletion or a move may fail and then changes nothing.                 *)
(***************************************************************************)
MaxServiceLeads == 2 \* leads of the pipeline in the CRM

\* amo_pipeline_services.py 14-19
STAGE_NAME_WINNERS == "Pobediteli"
STAGE_NAME_COLD_LEADS == "Kholodnye zayavki"
STAGE_NAME_ACCREDITATION == "Akkreditatsiya"
STAGE_NAME_PARTICIPANTS == "Uchastniki"

RemoteStages ==
    (STAGE_NAME_WINNERS :> 10) @@ (STAGE_NAME_COLD_LEADS :> 50)
    @@ (STAGE_NAME_ACCREDITATION :> 51) @@ (STAGE_NAME_PARTICIPANTS :> 52)

\* 34-50: the module globals, None until get_amo_entity_ids finds them
NoServiceIds ==
    [PIPELINE_ID_GOV_ORDER |-> NoId, STAGE_ID_WINNERS |-> NoId, USER_ID_UNASSIGNED |-> NoId,
     STAGE_ID_COLD_LEADS |-> NoId, STAGE_ID_ACCREDITATION |-> NoId, STAGE_ID_PARTICIPANTS |-> NoId]

ServiceLead(id, stage_and_owner) ==
    [id |-> id, status_id |-> stage_and_owner[1], responsible_user_id |-> stage_and_owner[2]]

\* the leads of the pipeline: each on a stage, owned by NERAZOBRANNYE ZAYAVKI or by a manager
ServiceLeadSets(stages) ==
    LET stage_ids == {stages[n] : n \in DOMAIN stages}
        owners    == {RemoteUsers[USER_NAME_UNSORTED_LEADS], RemoteUsers["Ilya"]}
    IN  {{ServiceLead(i, f[i]) : i \in 1..MaxServiceLeads} :
            f \in [1..MaxServiceLeads -> stage_ids \X owners]}

ServiceRequest(method, id) == [method |-> method, id |-> id]

RECURSIVE InIdOrder(_)
InIdOrder(ids) ==
    IF ids = {} THEN <<>>
    ELSE LET least == CHOOSE x \in ids : \A y \in ids : x <= y
         IN  <<least>> \o InIdOrder(ids \ {least})

\* amo_client.get_leads(pipeline_id, status_id, responsible_user_id=None)
get_leads(status_id, responsible_user_id) ==
    {l \in svc_leads : /\ l.status_id = status_id
                       /\ responsible_user_id \in {NoId, l.responsible_user_id}}

\* run_pipeline_optimization.py 16-26
RunPipelineOptimizationTests ==
    /\ svc_pc = "start"
    /\ \E is_test_mode \in BOOLEAN :
         svc_pc' = IF is_test_mode THEN "get_ids" ELSE "done"
    /\ UNCHANGED <<gpVars, ldVars, rqVars, srVars, plVars, cfgVars, crmVars, runVars,
                   svc_stages, svc_leads, svc_ids, svc_requests>>

\* get_amo_entity_ids (53-160): a global is assigned when its name is found,
\* and keeps its value otherwise
GetAmoEntityIds ==
    /\ svc_pc \in {"get_ids", "reget_ids"}
    /\ LET found(name, old) == IF name \in DOMAIN svc_stages THEN svc_stages[name] ELSE old
       IN  svc_ids' =
             [PIPELINE_ID_GOV_ORDER  |-> RemotePipelines[PIPELINE_NAME_GOSZAKAZ],
              STAGE_ID_WINNERS       |-> found(STAGE_NAME_WINNERS, svc_ids.STAGE_ID_WINNERS),
              USER_ID_UNASSIGNED     |-> RemoteUsers[USER_NAME_UNSORTED_LEADS],
              STAGE_ID_COLD_LEADS    |-> found(STAGE_NAME_COLD_LEADS, svc_ids.STAGE_ID_COLD_LEADS),
              STAGE_ID_ACCREDITATION |-> found(STAGE_NAME_ACCREDITATION, svc_ids.STAGE_ID_ACCREDITATION),
              STAGE_ID_PARTICIPANTS  |-> found(STAGE_NAME_PARTICIPANTS, svc_ids.STAGE_ID_PARTICIPANTS)]
    /\ svc_requests' = svc_requests \o <<ServiceRequest("get_pipelines_with_statuses", NoId),
                                         ServiceRequest("get_users", NoId)>>
    /\ svc_pc' = IF svc_pc = "get_ids" THEN "delete_winners" ELSE "done"
    /\ UNCHANGED <<gpVars, ldVars, rqVars, srVars, plVars, cfgVars, crmVars, runVars,
                   svc_stages, svc_leads>>

\* delete_winner_deals_unassigned (163-201), called at
\* run_pipeline_optimization.py 53-56; a delete_lead that fails is logged
\* (194-198) and the lead stays
DeleteWinnerDealsUnassigned ==
    /\ svc_pc = "delete_winners"
    /\ IF NoId \in {svc_ids.PIPELINE_ID_GOV_ORDER, svc_ids.STAGE_ID_WINNERS, svc_ids.USER_ID_UNASSIGNED}
       THEN UNCHANGED <<svc_leads, svc_requests>>
       ELSE LET leads_to_delete == get_leads(svc_ids.STAGE_ID_WINNERS, svc_ids.USER_ID_UNASSIGNED)
                ids == InIdOrder({l.id : l \in leads_to_delete})
            IN  /\ \E undeleted \in SUBSET leads_to_delete :
                     svc_leads' = svc_leads \ (leads_to_delete \ undeleted)
                /\ svc_requests' = svc_requests \o <<ServiceRequest("get_leads", svc_ids.STAGE_ID_WINNERS)>>
                                     \o [i \in 1..Len(ids) |-> ServiceRequest("delete_lead", ids[i])]
    /\ svc_pc' = "optimize"
    /\ UNCHANGED <<gpVars, ldVars, rqVars, srVars, plVars, cfgVars, crmVars, runVars,
                   svc_stages, svc_ids>>

\* 230-274 for one stage: the leads of NERAZOBRANNYE ZAYAVKI are deleted, the
\* others are moved to the cold stage
deals_to_delete(stage_id) == get_leads(stage_id, svc_ids.USER_ID_UNASSIGNED)

\* 222-274: the requests of the first loop for one stage
StageLeadRequests(stage_id) ==
    LET on_stage == get_leads(stage_id, NoId)
        deleted  == InIdOrder({l.id : l \in deals_to_delete(stage_id)})
    IN  <<ServiceRequest("get_leads", stage_id)>>
        \o [i \in 1..Len(deleted) |-> ServiceRequest("delete_lead", deleted[i])]
        \o (IF on_stage \ deals_to_delete(stage_id) = {} THEN <<>>
            ELSE <<ServiceRequest("update_leads_batch", stage_id)>>)

\* 292-295: the stage is deleted when the query before the deletion found no
\* lead on it
StageIsDeletedUnchecked(leads_remaining) == TRUE

StageIsDeleted(leads_remaining) == leads_remaining = {}

\* 280-300: the requests of the second loop for one stage
StageRemovalRequests(stage_id, leads_remaining) ==
    <<ServiceRequest("get_leads", stage_id)>>
    \o (IF StageIsDeleted(leads_remaining)
        THEN <<ServiceRequest("delete_pipeline_status", stage_id)>>
        ELSE <<>>)

\* optimize_accreditation_and_participants_stages (204-303), called at
\* run_pipeline_optimization.py 60-61.  `undeleted` are the leads whose
\* delete_lead fails, `unmoved` the stages whose update_leads_batch fails,
\* `unremoved` the stages whose delete_pipeline_status fails.
OptimizeAccreditationAndParticipantsStages ==
    /\ svc_pc = "optimize"
    /\ IF NoId \in {svc_ids.PIPELINE_ID_GOV_ORDER, svc_ids.STAGE_ID_ACCREDITATION,
                    svc_ids.STAGE_ID_PARTICIPANTS, svc_ids.STAGE_ID_COLD_LEADS,
                    svc_ids.USER_ID_UNASSIGNED}
       THEN /\ svc_pc' = "done"
            /\ UNCHANGED <<svc_leads, svc_requests, svc_stages>>
       ELSE LET accreditation == svc_ids.STAGE_ID_ACCREDITATION
                participants  == svc_ids.STAGE_ID_PARTICIPANTS
                stage_ids     == {accreditation, participants}
                to_delete     == deals_to_delete(accreditation) \cup deals_to_delete(participants)
            IN  \E undeleted \in SUBSET to_delete, unmoved \in SUBSET stage_ids,
                   unremoved \in SUBSET stage_ids :
                  LET kept == svc_leads \ (to_delete \ undeleted)
                      after == {IF /\ l.status_id \in stage_ids \ unmoved
                                   /\ l.responsible_user_id # svc_ids.USER_ID_UNASSIGNED
                                THEN [l EXCEPT !.status_id = svc_ids.STAGE_ID_COLD_LEADS]
                                ELSE l : l \in kept}
                      leads_remaining(stage_id) == {l \in after : l.status_id = stage_id}
                      removed == {st \in stage_ids \ unremoved :
                                     StageIsDeleted(leads_remaining(st))}
                  IN  /\ svc_leads' = after
                      /\ svc_requests' =
                           svc_requests \o StageLeadRequests(accreditation)
                                        \o StageLeadRequests(participants)
                                        \o StageRemovalRequests(accreditation, leads_remaining(accreditation))
                                        \o StageRemovalRequests(participants, leads_remaining(participants))
                      /\ svc_stages' = Restrict(svc_stages,
                                          {n \in DOMAIN svc_stages : svc_stages[n] \notin removed})
                      /\ svc_pc' = "reget_ids"
    /\ UNCHANGED <<gpVars, ldVars, rqVars, srVars, plVars, cfgVars, crmVars, runVars, svc_ids>>

InitService ==
    /\ SrParked
    /\ PagesParked
    /\ DirParked
    /\ RqParked
    /\ RunParked
    /\ PollParked
    /\ svc_stages \in {RemoteStages,
                       Restrict(RemoteStages, {STAGE_NAME_WINNERS, STAGE_NAME_COLD_LEADS}),
                       Restrict(RemoteStages, DOMAIN RemoteStages \ {STAGE_NAME_WINNERS})}
    /\ svc_leads \in ServiceLeadSets(svc_stages)
    /\ svc_ids = NoServiceIds
    /\ svc_pc = "start"
    /\ svc_requests = <<>>

NextService ==
    \/ RunPipelineOptimizationTests
    \/ GetAmoEntityIds
    \/ DeleteWinnerDealsUnassigned
    \/ OptimizeAccreditationAndParticipantsStages

SpecService == InitService /\ [][NextService]_vars

(***************************************************************************)
(* Properties of Spec.                                                     *)
(***************************************************************************)
\* a record is in progress: its pre-filters have run
InProgress == pc \notin {"idle", "record", "parked"}

CallsOf(op) == SelectSeq(calls, LAMBDA c : c.op = op)

\* the settings as shipped and a directory that resolves every name
DefaultConfiguration ==
    MIN_LEAD_BUDGET = DEFAULT_MIN_LEAD_BUDGET /\ dir = FullDirectory

\* C1: a record whose contract_securing is None or below MIN_LEAD_BUDGET is
\* dropped by _handle_lead_processing with no remote request at all, whatever
\* its other fields and whatever the CRM holds.
C1_NoRequestBelowMinimum ==
    (InProgress /\ (Rec.contract_securing.none
                    \/ Rec.contract_securing.kop < MIN_LEAD_BUDGET * 100))
        => (pc = "record_done" /\ calls = <<>> /\ ~raised)

C1_Witness ==
    /\ pc = "record_done"
    /\ ~Rec.contract_securing.none
    /\ Rec.contract_securing.kop > 0
    /\ Rec.contract_securing.kop < MIN_LEAD_BUDGET * 100
    /\ Rec.winner_name = "Acme LLC" /\ Rec.inn = "7701234567"
    /\ leads # <<>> /\ companies # <<>>
    /\ calls = <<>>

\* C2 (as claimed): over any number of passes on the unchanged batch, in the
\* default configuration, the CRM never holds two leads with the same purchase
\* number and the same name.
C2_AtMostOneLeadPerKey ==
    DefaultConfiguration => \A i, j \in 1..Len(leads) :
        (i # j /\ leads[i].purchase_number # NoStr)
            => ~(leads[i].purchase_number = leads[j].purchase_number
                 /\ leads[i].name = leads[j].name)

C4_NoDuplicateNote ==
    DefaultConfiguration => \A l \in 1..Len(leads) :
        \A i, j \in 1..Len(leads[l].notes) :
            i # j => leads[l].notes[i] # leads[l].notes[j]

\* C5 (as claimed): while a record whose incoming price is 0 is processed, no
\* price update is issued, whatever MIN_LEAD_BUDGET is configured.
C5_ZeroPriceNeverWritten ==
    (InProgress /\ ~Rec.contract_securing.none /\ Rec.contract_securing.kop = 0)
        => CallsOf("update_lead") = <<>>

\* the price step of a matched lead is over
Matched == loc.current_lead_id # NoId /\ ~loc.is_new_lead
PastPriceStep ==
    pc \in {"get_linked", "link_company", "add_note", "create_task", "record_done"}

\* C6 (as claimed): for a matched lead, a nonzero incoming price that differs
\* from the stored one gives exactly one price update, carrying the incoming
\* price; an incoming price equal to the stored one gives none.
C6_UpdateCarriesIncomingPrice ==
    (InProgress /\ Matched /\ PastPriceStep)
        => LET kop == Rec.contract_securing.kop
               updates == CallsOf("update_lead")
           IN  /\ (kop # 0 /\ kop # loc.lead_current_budget * 100)
                     => /\ Len(updates) = 1
                        /\ updates[1].entity_id = loc.current_lead_id
                        /\ updates[1].price = <<kop \div 100>>
                        /\ updates[1].price[1] * 100 = kop
               /\ (kop = loc.lead_current_budget * 100) => updates = <<>>

\* C6 (amended): for a matched lead, a nonzero incoming price that differs
\* from the stored one gives exactly one price update, carrying the integer
\* part of the incoming price; an incoming price equal to the stored one gives
\* none.
C6_UpdateCarriesIntegerPart ==
    (InProgress /\ Matched /\ PastPriceStep)
        => LET kop == Rec.contract_securing.kop
               updates == CallsOf("update_lead")
           IN  /\ (kop # 0 /\ kop # loc.lead_current_budget * 100)
                     => /\ Len(updates) = 1
                        /\ updates[1].entity_id = loc.current_lead_id
                        /\ updates[1].price = <<kop \div 100>>
               /\ (kop = loc.lead_current_budget * 100) => updates = <<>>

C6_Witness ==
    /\ InProgress /\ Matched /\ pc = "record_done"
    /\ Rec.contract_securing.kop % 100 # 0
    /\ Len(CallsOf("update_lead")) = 1
    /\ CallsOf("update_lead")[1].ok
    /\ leads[loc.current_lead_id].price * 100 # Rec.contract_securing.kop
    /\ leads[loc.current_lead_id].price # loc.lead_current_budget

\* C7: a record whose winner_name is empty or missing is dropped with no remote
\* request, whatever its budget and tax id.
C7_NoRequestWithoutWinnerName ==
    (InProgress /\ (Rec.winner_name = "" \/ Rec.winner_name = NoStr))
        => (pc = "record_done" /\ calls = <<>> /\ ~raised)

C7_Witness ==
    /\ pc = "record_done"
    /\ Rec.winner_name = ""
    /\ ~Rec.contract_securing.none
    /\ Rec.contract_securing.kop >= MIN_LEAD_BUDGET * 100
    /\ MIN_LEAD_BUDGET > 0
    /\ Rec.inn = "7701234567"
    /\ companies # <<>>
    /\ pass_no = MaxPasses

\* C8 (as claimed): in the default configuration, once the note step of a
\* record is over, a follow-up task has been requested for the lead: for the
\* default coordinator when the lead's owner is the unsorted user or absent,
\* for the lead's owner otherwise.
C8_TaskForCoordinatorOrOwner ==
    (pc = "record_done" /\ CallsOf("add_note") # <<>> /\ DefaultConfiguration)
        => LET owner == loc.lead_info_responsible_user_id
               created == CallsOf("create_task")
           IN  /\ Len(created) = 1
               /\ created[1].entity_id = loc.current_lead_id
               /\ created[1].responsible_user_id =
                    IF owner = NoId \/ owner = id_unsorted_leads(dir)
                    THEN id_anastasia_popova(dir)
                    ELSE owner

(***************************************************************************)
(* Properties of SpecPages.                                                *)
(***************************************************************************)
\* the first page that is empty or carries no next link
EndsListing(p) ==
    LET a == ServerPage(gp_listing, p) IN a.items = <<>> \/ ~a.next

LastPageRead ==
    CHOOSE p \in 1..(Len(gp_listing) + 1) :
        EndsListing(p) /\ \A q \in 1..(p - 1) : ~EndsListing(q)

RECURSIVE ItemsOfPages(_)
ItemsOfPages(k) ==
    IF k = 0 THEN <<>> ELSE ItemsOfPages(k - 1) \o ServerPage(gp_listing, k).items

FailsAt(p) == ServerPage(gp_listing, p).kind = "error"

\* C9: pages are requested once each in the order 1, 2, ..., none after the
\* first page k that is empty or has no next link, and with no failing page the
\* result is the items of pages 1..k in arrival order.
C9_ConcatenationOfPages ==
    /\ gp_requests = [i \in 1..Len(gp_requests) |-> i]
    /\ Len(gp_requests) <= LastPageRead
    /\ (gp_pc # "loop" /\ gp_pc # "raised" /\ ~FailsAt(LastPageRead) /\ pc = "parked")
          => /\ gp_all_data = ItemsOfPages(LastPageRead)
             /\ Len(gp_requests) = LastPageRead

C9_Witness ==
    /\ gp_pc = "returned"
    /\ LastPageRead = 2
    /\ Len(gp_listing) = 3
    /\ ~FailsAt(2)
    /\ ServerPage(gp_listing, 2).kind = "list"
    /\ ServerPage(gp_listing, 3).items # <<>>
    /\ Len(gp_all_data) = 4
    /\ gp_requests = <<1, 2>>

\* C10: when the fetch of page k fails, _get_all_pages raises nothing,
\* requests no further page and returns the items of pages 1..k-1.
C10_PartialResultOnFailure ==
    /\ gp_pc # "raised"
    /\ (gp_pc = "returned" /\ FailsAt(LastPageRead) /\ pc = "parked")
          => /\ gp_all_data = ItemsOfPages(LastPageRead - 1)
             /\ gp_requests = [i \in 1..LastPageRead |-> i]

C10_Witness ==
    /\ gp_pc = "returned"
    /\ FailsAt(3)
    /\ LastPageRead = 3
    /\ Len(gp_all_data) = 3
    /\ gp_requests = <<1, 2, 3>>

(***************************************************************************)
(* Properties of SpecDir.                                                  *)
(***************************************************************************)
\* a request sent while loading was answered with an error
LoadFailed ==
    \E i \in 1..Len(ld_requests) :
        ServerPage(ld_catalog[ld_requests[i][1]], ld_requests[i][2]).kind = "error"

SweptEndpoints == {ld_requests[i][1] : i \in 1..Len(ld_requests)}

\* C11 (as claimed): once a request of the loading has failed, the loaded flag
\* stays false and __aenter__ never returns, so that no batch is processed
\* with the directory the failed loading left behind.
C11_LoadingFailureIsFatal ==
    LoadFailed => (~initialized_ids /\ ld_pc \notin {"loaded", "processing"})

\* C12: once the loaded flag is set, no step sends a request or changes a
\* name -> id map or the flag, however often _ensure_ids_initialized is called.
C12_EnsureIsIdempotent ==
    [][initialized_ids =>
          (initialized_ids' /\ dir' = dir /\ ld_requests' = ld_requests)]_vars

C12_Witness ==
    /\ initialized_ids
    /\ ld_pc = "loaded"
    /\ ld_calls = 2
    /\ Len(ld_requests) >= 4
    /\ dir.users_ids # <<>>

\* C13 (as claimed): after a loading in which every request was served, the
\* five endpoints have been swept and the task type the CRM holds resolves to
\* its id.
C13_FiveSweepsResolveTaskTypes ==
    (initialized_ids /\ ld_pc \in {"loaded", "processing"} /\ ~LoadFailed)
        => /\ SweptEndpoints = {"pipelines", "users", "lead_fields", "company_fields",
                                "task_types"}
           /\ DictGet(dir.task_types_ids, TASK_TYPE_NAME_DEFAULT)
                = RemoteTaskTypes[TASK_TYPE_NAME_DEFAULT]

\* C28: once the directory is loaded, no step of the session adds, removes or
\* changes an entry of a name -> id map: not a later call of
\* _ensure_ids_initialized, not the processing of the batch, and not a change
\* of the CRM account itself, so every name resolves to the id it was loaded
\* with.
C28_DirectoryIsNeverInvalidated ==
    [][initialized_ids =>
          \A map \in DOMAIN dir :
              /\ DOMAIN dir'[map] = DOMAIN dir[map]
              /\ \A name \in DOMAIN dir[map] : dir'[map][name] = dir[map][name]]_vars

\* the directory was loaded, the account changed afterwards, the client was
\* asked again and still resolves Alena to the id it loaded
C28_Witness ==
    /\ initialized_ids
    /\ ld_pc = "loaded"
    /\ ld_calls = 2
    /\ ld_catalog.users = ChangedUsers
    /\ DictGet(dir.users_ids, "Alena") = 13

(***************************************************************************)
(* Properties of SpecRequest.                                              *)
(***************************************************************************)
RequestOver == rq_pc \in {"returned", "raised"}

\* C14 (as claimed): a 2xx status other than 204 gives the parsed JSON body,
\* 204 gives null, and every other status is raised with its status code; a
\* status outside 2xx never gives null.
C14_StatusToOutcome ==
    (RequestOver /\ rq_answer.kind = "response")
        => LET st == rq_answer.status
           IN  /\ (200 <= st /\ st < 300 /\ st # 204 /\ rq_answer.json)
                     => (rq_pc = "returned" /\ rq_result.kind = "json")
               /\ (st = 204) => (rq_pc = "returned" /\ rq_result.kind = "null")
               /\ (st < 200 \/ st >= 300)
                     => (rq_pc = "raised" /\ rq_result.kind = "raised" /\ rq_result.status = st)

\* C15: a call of _request sends at most one HTTP request, and a transport
\* failure or an error status (4xx, 5xx) is raised to the caller after that
\* one attempt.
C15_NoAutomaticRetry ==
    /\ rq_sent <= 1
    /\ (RequestOver /\ (rq_answer.kind = "transport failure" \/ rq_answer.status >= 400))
          => (rq_pc = "raised" /\ rq_sent = 1)

C15_Witness ==
    /\ rq_pc = "raised"
    /\ rq_answer.kind = "response" /\ rq_answer.status = 503
    /\ rq_op = "update_lead"
    /\ rq_sent = 1

\* C16: whatever the operation, an HTTP request is sent only after the gate
\* of the client has been acquired: the requests sent never outnumber the
\* acquisitions granted.
C16_GateBeforeEveryRequest ==
    /\ rq_sent <= rq_acquired
    /\ (rq_pc \in {"send", "respond"} \/ RequestOver) => rq_acquired >= 1

C16_Witness ==
    /\ rq_pc = "respond"
    /\ rq_op = "create_task"
    /\ rq_sent = 1
    /\ rq_acquired = 2

(***************************************************************************)
(* Properties of SpecSearch.                                               *)
(***************************************************************************)
\* the company carries the requested tax id as a value of its tax id field
TaxIdEquals(company) ==
    /\ company.custom_fields_values.kind = "list"
    /\ \E i \in 1..Len(company.custom_fields_values.fields) :
         /\ company.custom_fields_values.fields[i].field_id
              = DictGet(dir.custom_fields_company_ids, CUSTOM_FIELD_NAME_INN_LEAD)
         /\ HasValue(company.custom_fields_values.fields[i].values, sr_inn)

\* C17 (as claimed): search_companies_by_inn returns the companies of the
\* search result whose tax id field holds the requested tax id, each once and
\* in search order, and no other company.
C17_ExactlyTheCompaniesWithTheTaxId ==
    (sr_pc \notin {"called", "parked"})
        => /\ sr_pc = "returned"
           /\ sr_found = SelectSeq(sr_companies, TaxIdEquals)

(***************************************************************************)
(* Properties of Spec: classification of a record, failures.               *)
(***************************************************************************)
\* the lead search of the record in progress was served
LeadSearchServed ==
    /\ CallsOf("search_leads") # <<>>
    /\ CallsOf("search_leads")[1].ok

\* the record in progress is classified: matched or new
Classified == InProgress /\ (loc.is_new_lead \/ loc.current_lead_id # NoId)

\* the lead matches the natural key of the record in progress and is not
\* owned by a user of the exclusion list
MatchesNaturalKey(l) ==
    /\ l.purchase_number = Rec.purchase_number
    /\ l.name = Rec.winner_name
    /\ l.responsible_user_id \notin exclude_user_ids_for_filter(dir)

\* the leads the CRM held when the record in progress was classified
LeadsBeforeRecord ==
    IF loc.is_new_lead /\ loc.current_lead_id # NoId
    THEN SubSeq(leads, 1, loc.current_lead_id - 1)
    ELSE leads

\* C18 (as claimed): in the default configuration and with the lead search
\* served, a record is treated as matched exactly when the CRM holds a lead
\* with its purchase number and winner name that is not owned by a user of
\* the exclusion list; otherwise it is new, and the lead created for it has
\* name = winner_name, price = contract_securing and the resolved company.
C18_MatchedIffKeyAndNotExcluded ==
    (DefaultConfiguration /\ Classified /\ LeadSearchServed)
        => /\ (~loc.is_new_lead)
                <=> (\E i \in 1..Len(LeadsBeforeRecord) : MatchesNaturalKey(LeadsBeforeRecord[i]))
           /\ (loc.is_new_lead /\ loc.current_lead_id # NoId)
                => /\ Len(CallsOf("create_lead")) = 1
                   /\ leads[loc.current_lead_id].name = Rec.winner_name
                   /\ leads[loc.current_lead_id].price * 100 = Rec.contract_securing.kop
                   /\ loc.company_id_to_link # NoId
                        => loc.company_id_to_link \in leads[loc.current_lead_id].company_ids

\* the creation of the lead of the record in progress failed
CreateLeadFailed ==
    /\ CallsOf("create_lead") # <<>>
    /\ ~CallsOf("create_lead")[1].ok

\* C19: when the creation of the lead for a new record fails, the record ends
\* there: no price update, company link, note or task is requested for it.
C19_FailedCreateEndsRecord ==
    (InProgress /\ CreateLeadFailed)
        => /\ pc = "record_done"
           /\ loc.current_lead_id = NoId
           /\ calls[Len(calls)].op = "create_lead"
           /\ \A op \in {"update_lead", "get_linked", "link_company", "add_note", "create_task"} :
                CallsOf(op) = <<>>

C19_Witness ==
    /\ pc = "record_done"
    /\ CreateLeadFailed
    /\ loc.is_new_lead
    /\ loc.company_id_to_link # NoId
    /\ ~note_text_raises(Rec)
    /\ DefaultConfiguration

\* C20: a record that ends with an exception does not end the pass: the pass
\* never raises, it goes on to the next record of the batch, and it is over
\* only when every record of the batch has been handled.
C20_RecordFailuresAreIsolated ==
    /\ pc # "pass_raised"
    /\ \A i \in 1..Len(outcomes) :
         (outcomes[i] = "raised" /\ i < Len(batch)) => idx > i
    /\ (pc = "idle" /\ idx > 0) => Len(outcomes) = Len(batch)

C20_Witness ==
    /\ pc = "record_done"
    /\ idx = 2
    /\ outcomes = <<"raised">>
    /\ ~raised
    /\ CallsOf("add_note") # <<>>
    /\ CallsOf("create_task") # <<>>

(***************************************************************************)
(* Properties of Spec: the worked runs.                                    *)
(***************************************************************************)
\* every request of the run so far was served
NothingFailed == failures = 0

\* the record in progress is the record of the worked example
ExampleRecord ==
    /\ Len(batch) = 1
    /\ Rec.purchase_number = "PN-1"
    /\ Rec.winner_name = "Acme LLC"
    /\ Rec.inn = "7701234567"
    /\ Rec.contract_securing = Roubles(500000)

\* C21 (as claimed): in the default configuration and with every request
\* served, the pass over the record {PN-1, Acme LLC, 7701234567, 500000} that
\* finds neither a company nor a lead for it creates one company (Acme LLC,
\* 7701234567), one lead (Acme LLC, 500000, linked to that company), one note
\* and one task for the default coordinator.
C21_FirstRunCreatesEverything ==
    (DefaultConfiguration /\ NothingFailed /\ pc = "record_done" /\ ExampleRecord
       /\ CallsOf("create_company") # <<>> /\ loc.is_new_lead)
        => /\ Len(CallsOf("create_company")) = 1
           /\ Len(CallsOf("create_lead")) = 1
           /\ loc.company_id_to_link = Len(companies)
           /\ companies[loc.company_id_to_link].name = "Acme LLC"
           /\ companies[loc.company_id_to_link].inn = "7701234567"
           /\ loc.current_lead_id = Len(leads)
           /\ leads[loc.current_lead_id].name = "Acme LLC"
           /\ leads[loc.current_lead_id].price = 500000
           /\ leads[loc.current_lead_id].company_ids = {loc.company_id_to_link}
           /\ Len(leads[loc.current_lead_id].notes) = 1
           /\ Len(CallsOf("add_note")) = 1
           /\ Len(CallsOf("create_task")) = 1
           /\ CallsOf("create_task")[1].responsible_user_id = id_anastasia_popova(dir)
           /\ Len(tasks) = 1

\* the matched lead carries the price an earlier pass sent for this record
PriceStoredFromRecord ==
    /\ pass_no = 2 /\ Len(batch) = 1 /\ NothingFailed
    /\ InProgress /\ Matched /\ PastPriceStep
    /\ ~Rec.contract_securing.none
    /\ ~BelowMinLeadBudget(Rec)
    /\ loc.lead_current_budget = IntOf(Rec.contract_securing)

\* C22 (as claimed): when the lead of a record was created or price-updated
\* from that record in an earlier pass, the next pass over the unchanged record
\* issues no price update, whether contract_securing is integer or fractional.
C22_NoPriceUpdateOnSecondPass ==
    PriceStoredFromRecord => CallsOf("update_lead") = <<>>

(***************************************************************************)
(* Properties of Spec: recency.                                            *)
(***************************************************************************)
NoteAppended == \E i \in 1..Len(calls) : calls[i].op = "add_note" /\ calls[i].ok

\* C30 (as claimed): when a record is done, its lead has been updated at most
\* once; when a note was appended and no price update was sent, exactly one
\* update without a price was sent to refresh recency; when no note was
\* appended and no price update was sent, no update was sent.
C30_RecencyRefreshedOnce ==
    (InProgress /\ pc = "record_done")
        => LET updates == CallsOf("update_lead")
               price_updates == SelectSeq(updates, LAMBDA c : c.price # <<>>)
               touches == SelectSeq(updates, LAMBDA c : c.price = <<>>)
           IN  /\ Len(updates) <= 1
               /\ (NoteAppended /\ price_updates = <<>>) => Len(touches) = 1
               /\ (~NoteAppended /\ price_updates = <<>>) => touches = <<>>

(***************************************************************************)
(* Properties of Spec: authorization.                                      *)
(***************************************************************************)
\* the operations of the client that send POST or PATCH
MutatingOperations ==
    {"create_company", "create_lead", "update_lead", "link_company", "add_note", "create_task"}

\* this step sends a mutating request
SendsMutatingRequest ==
    /\ Len(calls') = Len(calls) + 1
    /\ calls'[Len(calls')].op \in MutatingOperations

\* this step takes up a record of the batch
TakesUpRecord == pc = "record" /\ pc' # "record"

\* C26 (as claimed): once a request of a session was answered 401, the session
\* takes up no further record and sends no further mutating request.
C26_UnauthorizedIsFatal ==
    [][unauthorized => (~TakesUpRecord /\ ~SendsMutatingRequest)]_vars

(***************************************************************************)
(* Properties of SpecResume.                                               *)
(***************************************************************************)
\* the earlier pass was cut short after it created the lead of the record now
\* handled and before it wrote the note; the record has now been handled again
\* with every request served
ResumedAfterLeadCreation ==
    /\ Len(interrupted) = 1
    /\ interrupted[1].loc.is_new_lead
    /\ interrupted[1].loc.current_lead_id # NoId
    /\ interrupted[1].pc \in {"get_linked", "link_company", "add_note"}
    /\ pass_no = 2
    /\ idx = interrupted[1].idx
    /\ pc = "record_done"
    /\ NothingFailed

\* C23 (as claimed): when a pass is cut short after the lead of a record was
\* created and before its note was written, the lead stays, and the next pass
\* over the record finds that lead by search, creates no second lead, writes
\* the note and creates the task.
C23_ResumeCompletesTheRecord ==
    ResumedAfterLeadCreation
        => /\ interrupted[1].loc.current_lead_id \in 1..Len(leads)
           /\ Matched
           /\ loc.current_lead_id = interrupted[1].loc.current_lead_id
           /\ CallsOf("create_lead") = <<>>
           /\ Len(CallsOf("add_note")) = 1
           /\ Len(leads[loc.current_lead_id].notes) = 1
           /\ Len(CallsOf("create_task")) = 1

(***************************************************************************)
(* Properties of SpecPoll.                                                 *)
(***************************************************************************)
\* session k is over and one of its records failed on the transport
HadFailedRecord(k) ==
    /\ sessions[k].closed
    /\ \E r \in 1..Len(sessions[k].outcomes) : sessions[k].outcomes[r] = "failed"

\* from the iteration that opened session k to iteration i the mailbox showed
\* the file of session k as its most recent one
SameFileSince(k, i) ==
    /\ sessions[k].poll < i
    /\ \A j \in sessions[k].poll..i : polled[j].dt = sessions[k].dt

\* C24 (as claimed): when a record of a batch failed on a transient transport
\* failure, a later iteration of the polling loop that still finds that batch
\* as the most recent file processes it again.
C24_FailedRecordIsRetried ==
    \A k \in 1..Len(sessions), i \in 1..Len(polled) :
        (HadFailedRecord(k) /\ SameFileSince(k, i)) => polled[i].process_this_file

\* C25: an iteration of the polling loop processes the file it finds exactly
\* when no file was handled before or the file's extraction timestamp is
\* strictly newer than the last one handled; a CRM session is opened only by
\* such an iteration, so a file that is not newer causes no session and no
\* request.
C25_OnlyStrictlyNewerFilesAreProcessed ==
    /\ \A i \in 1..Len(polled) :
         polled[i].dt # NoStamp =>
            (polled[i].process_this_file
                <=> (polled[i].last = NoStamp \/ polled[i].dt > polled[i].last))
    /\ \A i \in 1..Len(polled) : polled[i].dt = NoStamp => ~polled[i].process_this_file
    /\ \A k \in 1..Len(sessions) :
         /\ sessions[k].poll \in 1..Len(polled)
         /\ polled[sessions[k].poll].process_this_file
         /\ polled[sessions[k].poll].dt = sessions[k].dt

\* a file was taken into a session and handled; the loop found the same file
\* again and left it alone
C25_Witness ==
    /\ Len(polled) = 2
    /\ polled[1].process_this_file
    /\ polled[2].dt = polled[1].dt /\ polled[2].last = polled[1].dt
    /\ ~polled[2].process_this_file
    /\ Len(sessions) = 1
    /\ sessions[1].closed /\ Len(sessions[1].outcomes) = 1

\* C29 (as claimed): the directory sweeps are made for the first batch that
\* is processed and for no later one: the sessions of later batches reuse the
\* maps.
C29_SweepsForTheFirstBatchOnly ==
    \A j, k \in 1..Len(sessions) :
        (j < k /\ sessions[j].closed /\ sessions[j].outcomes # <<>>) => sessions[k].sweeps = {}

(***************************************************************************)
(* Properties of SpecService.                                              *)
(***************************************************************************)
\* C27 (as claimed): no operation of the system deletes a lead: every step
\* leaves every lead of the CRM in place, and no lead deletion is among the
\* requests sent.
C27_LeadsAreNeverDeleted ==
    [][/\ \A l \in svc_leads : \E m \in svc_leads' : m.id = l.id
       /\ \A i \in 1..Len(svc_requests') : svc_requests'[i].method # "delete_lead"]_vars

(***************************************************************************)
(* Properties of Spec: sequential processing.                              *)
(***************************************************************************)
\* the place of an operation in the workflow of one record
StepRank(op) ==
    CASE op = "search_companies" -> 1
      [] op = "create_company"   -> 2
      [] op = "search_leads"     -> 3
      [] op = "create_lead"      -> 4
      [] op = "update_lead"      -> 4
      [] op = "get_linked"       -> 5
      [] op = "link_company"     -> 6
      [] op = "add_note"         -> 7
      [] op = "create_task"      -> 8

\* the positions at which the record in hand sends a request
RequestPositions ==
    {"search_companies", "create_company", "search_leads", "create_lead", "update_lead",
     "get_linked", "link_company", "add_note", "create_task"}

\* C31: records are processed one after the other.  The requests of one record
\* are sent in the order of the workflow, each operation at most once, and a
\* note or a task always names a known lead; a step sends at most one request,
\* for the record in hand; and the pass moves to the next record only from the
\* end of the record in hand, in a step that sends nothing.
C31_RecordsAreProcessedSequentially ==
    /\ [](/\ \A i, j \in 1..Len(calls) :
                i < j => StepRank(calls[i].op) < StepRank(calls[j].op)
          /\ \A i \in 1..Len(calls) :
                calls[i].op \in {"add_note", "create_task"} => calls[i].entity_id # NoId)
    /\ [][/\ (calls' # calls /\ calls' # <<>>)
                => /\ Len(calls') = Len(calls) + 1
                   /\ SubSeq(calls', 1, Len(calls)) = calls
                   /\ pc \in RequestPositions
                   /\ idx' = idx /\ pass_no' = pass_no
          /\ (idx' # idx /\ idx # 0 /\ pass_no' = pass_no)
                => (pc = "record_done" /\ idx' = idx + 1 /\ calls' = calls)]_vars

\* the second record of a batch has gone through the whole workflow
C31_Witness ==
    /\ pc = "record_done" /\ idx = 2 /\ Len(outcomes) = 1
    /\ Len(calls) >= 4
    /\ calls[Len(calls)].op = "create_task"
    /\ \E i \in 1..Len(calls) : calls[i].op = "add_note"

(***************************************************************************)
(* Properties of Spec: follow-up tasks.                                    *)
(***************************************************************************)
\* C32 (as claimed): in the default configuration and with every request
\* served, a pass that has handled a record whose lead was matched has created
\* one new follow-up task on that lead, whatever tasks the lead already had.
C32_EveryPassOverAMatchedLeadCreatesATask ==
    (pc = "record_done" /\ InProgress /\ Matched /\ NothingFailed /\ DefaultConfiguration)
        => /\ Len(CallsOf("create_task")) = 1
           /\ CallsOf("create_task")[1].entity_id = loc.current_lead_id
           /\ tasks # <<>>
           /\ tasks[Len(tasks)].entity_id = loc.current_lead_id

(***************************************************************************)
(* Properties of Spec: companies of excluded managers.                     *)
(***************************************************************************)
\* the users of the CRM that settings.EXCLUDE_RESPONSIBLE_USERS names
ExcludedUsers ==
    {RemoteUsers[EXCLUDE_RESPONSIBLE_USERS[i]] :
        i \in {j \in 1..Len(EXCLUDE_RESPONSIBLE_USERS) :
                  EXCLUDE_RESPONSIBLE_USERS[j] \in DOMAIN RemoteUsers}}

\* the search for the record's tax id found a company of an excluded user
FoundCompanyOfExcludedUser ==
    /\ InProgress
    /\ CallsOf("search_companies") # <<>>
    /\ CallsOf("create_company") = <<>>
    /\ loc.company_id_to_link # NoId
    /\ loc.company_responsible_user_id \in ExcludedUsers

\* C33 (as claimed): when the company found for the record's tax id is owned by
\* a user of the exclusion list, the record sends no mutating request: no lead
\* is created, updated or linked, no note and no task is written.
C33_NoMutationForExcludedCompany ==
    FoundCompanyOfExcludedUser
        => \A i \in 1..Len(calls) :
              calls[i].op \notin {"create_lead", "update_lead", "link_company",
                                  "add_note", "create_task"}

\* the stages named by the stage deletions a step requests
StagesAskedToDelete ==
    {svc_requests'[i].id :
        i \in {j \in (Len(svc_requests) + 1)..Len(svc_requests') :
                  svc_requests'[j].method = "delete_pipeline_status"}}

\* C34: a step of the service asks for the deletion of a stage, or removes a
\* stage from the pipeline, only when no lead is on that stage once the leads
\* have been deleted and moved; a stage that still holds a lead is kept.
C34_NoStageWithLeadsIsDeleted ==
    [][\A n \in DOMAIN svc_stages :
          (n \notin DOMAIN svc_stages' \/ svc_stages[n] \in StagesAskedToDelete)
             => \A l \in svc_leads' : l.status_id # svc_stages[n]]_vars

\* the optimization is over: a lead could not be deleted or moved, its stage
\* is kept, while the other stage was emptied and deleted
C34_Witness ==
    /\ svc_pc = "reget_ids"
    /\ STAGE_NAME_ACCREDITATION \in DOMAIN svc_stages
    /\ \E l \in svc_leads : l.status_id = svc_stages[STAGE_NAME_ACCREDITATION]
    /\ STAGE_NAME_PARTICIPANTS \notin DOMAIN svc_stages
    /\ \E i \in 1..Len(svc_requests) : svc_requests[i].method = "delete_pipeline_status"

(***************************************************************************)
(* Properties of Spec: a company that cannot be created.                   *)
(***************************************************************************)
CompanyCreationFailed ==
    /\ InProgress
    /\ \E i \in 1..Len(calls) : calls[i].op = "create_company" /\ ~calls[i].ok

\* C35: when no company was found for the record's tax id and create_company
\* failed, the record is over: the failed creation is its last request, so no
\* lead is searched, created or updated and no note or task is written.
C35_FailedCompanyCreationEndsRecord ==
    CompanyCreationFailed
        => /\ pc = "record_done"
           /\ calls[Len(calls)].op = "create_company"
           /\ loc.current_lead_id = NoId
           /\ \A i \in 1..Len(calls) :
                 calls[i].op \in {"search_companies", "create_company"}

\* the search found no company, and the creation of one failed
C35_Witness ==
    /\ CompanyCreationFailed
    /\ pc = "record_done"
    /\ companies = <<>>
    /\ Len(batch) = 1
    /\ Len(CallsOf("search_companies")) = 1
    /\ CallsOf("search_companies")[1].ok

\* this step ends an iteration on an exception: the rows of the file do not
\* validate (parse_for_db raises), or the opening of the CRM session raised
IterationRaises ==
    \/ /\ pl_pc = "sleep" /\ polls' = polls + 1
       /\ polled'[Len(polled')].process_this_file
       /\ ~mail.valid
    \/ /\ pl_pc = "enter"
       /\ sessions'[Len(sessions')].closed

\* C36: the last-processed extraction timestamp never decreases.  It changes
\* only to the timestamp of the file in hand, and only when the iteration got
\* through without an exception: at the exit of a session that was opened, or
\* for a file that parses to no rows, for which no session is opened.  An
\* iteration that raises leaves it unchanged and goes to sleep, so that the
\* same file, found again, is taken up again.
C36_TimestampAdvancesOnlyAfterThePass ==
    [][/\ last_processed_extraction_dt' >= last_processed_extraction_dt
       /\ last_processed_extraction_dt' # last_processed_extraction_dt
            => \/ /\ pl_pc = "exit"
                  /\ ~sessions[Len(sessions)].closed
                  /\ sessions[Len(sessions)].sweeps # {}
                  /\ last_processed_extraction_dt' = sessions[Len(sessions)].dt
               \/ /\ pl_pc = "sleep"
                  /\ mail.valid /\ mail.rows = 0
                  /\ last_processed_extraction_dt' = mail.dt
       /\ IterationRaises
            => /\ last_processed_extraction_dt' = last_processed_extraction_dt
               /\ pl_pc' = "sleep"
               /\ process_this_file(last_processed_extraction_dt', mail'.dt)]_vars

\* the opening of the session raised for the first file, the second iteration
\* took the same file up again and handled it, and the timestamp advanced
C36_Witness ==
    /\ Len(sessions) = 2
    /\ sessions[1].closed /\ sessions[1].outcomes = <<>>
    /\ sessions[2].dt = sessions[1].dt
    /\ sessions[2].closed /\ sessions[2].outcomes # <<>>
    /\ polled[1].last = NoStamp /\ polled[2].last = NoStamp
    /\ last_processed_extraction_dt = sessions[2].dt

(***************************************************************************)
(* Properties of Spec: the target pipeline and stage.                      *)
(***************************************************************************)
\* the directory lacks the pipeline PIPELINE_NAME_GOSZAKAZ or its stage
\* STATUS_NAME_POBEDITELI
TargetUnresolved ==
    \/ DictGet(dir.pipelines_ids, PIPELINE_NAME_GOSZAKAZ) = NoId
    \/ \A p \in DOMAIN dir.statuses_ids :
          DictGet(dir.statuses_ids[p], STATUS_NAME_POBEDITELI) = NoId

\* C37: when the target pipeline or the target stage does not resolve, no pass
\* takes up a record or sends a request, whatever the batch: the pass is over
\* as it starts, nothing is logged as handled and the CRM stays as it was.
C37_NothingProcessedWithoutTarget ==
    /\ [](TargetUnresolved
            => /\ pc = "idle" /\ idx = 0
               /\ calls = <<>> /\ outcomes = <<>> /\ failures = 0)
    /\ [][TargetUnresolved => UNCHANGED crmVars]_vars

C37_Witness ==
    /\ TargetUnresolved
    /\ DictGet(dir.pipelines_ids, PIPELINE_NAME_GOSZAKAZ) # NoId
    /\ pass_no = 2
    /\ Len(batch) = 2
    /\ leads # <<>>

(***************************************************************************)
(* Properties of Spec: linking the company.                                *)
(***************************************************************************)
\* this step sends a link request
SendsLinkRequest ==
    /\ Len(calls') = Len(calls) + 1
    /\ calls'[Len(calls')].op = "link_company"

\* C38 (as claimed): a link request is sent only when the company is not among
\* the companies the lead is linked to at that moment; and a record without a
\* tax id has no company searched, created or linked, while its lead is still
\* found or created when every request is served.
C38_LinkingIsIdempotent ==
    /\ [][SendsLinkRequest
            => loc.company_id_to_link \notin leads[loc.current_lead_id].company_ids]_vars
    /\ []((InProgress /\ Falsy(Rec.inn))
            => /\ \A i \in 1..Len(calls) :
                     calls[i].op \notin {"search_companies", "create_company",
                                         "get_linked", "link_company"}
               /\ (/\ pc = "record_done" /\ NothingFailed
                   /\ ~BelowMinLeadBudget(Rec) /\ ~NoDealName(Rec))
                     => loc.current_lead_id # NoId)

(***************************************************************************)
(* Properties of SpecPagesFair.                                            *)
(***************************************************************************)
\* C39: on a finite listing _get_all_pages returns.  Until then it requests
\* the pages 1, 2, 3, ... once each in this order, never more than one page
\* past the end of the listing, each with limit 250 and with the caller's
\* query parameters, and the dictionary the caller passed stays as it was.
C39_PaginationTerminates ==
    /\ [](/\ gp_requests = [i \in 1..Len(gp_requests) |-> i]
          /\ Len(gp_requests) <= Len(gp_listing) + 1
          /\ Len(gp_queries) = Len(gp_requests)
          /\ \A i \in 1..Len(gp_queries) :
                /\ gp_queries[i]["page"] = i
                /\ gp_queries[i]["limit"] = 250
                /\ \A k \in DOMAIN gp_params.dict : gp_queries[i][k] = gp_params.dict[k])
    /\ [][gp_params' = gp_params]_vars
    /\ <>(gp_pc = "returned")

\* three pages were requested for a search query, and the loop returned
C39_Witness ==
    /\ gp_pc = "returned"
    /\ gp_requests = <<1, 2, 3>>
    /\ gp_params = Params("query" :> 7701)
    /\ DOMAIN gp_queries[3] = {"page", "limit", "query"}
    /\ ServerPage(gp_listing, 3).next

(***************************************************************************)
(* Properties of Spec: several entities match.                             *)
(***************************************************************************)
\* the leads and the companies of the CRM that carry the record's keys, in
\* the order the CRM lists them
LeadsOfRecord == SelectSeq(leads, LAMBDA l : l.purchase_number = Rec.purchase_number)
CompaniesOfRecord == SelectSeq(companies, LAMBDA c : c.inn = Rec.inn)

\* the search of the record in hand was served and met several entities
SeveralLeadsFound ==
    /\ InProgress
    /\ \E i \in 1..Len(calls) : calls[i].op = "search_leads" /\ calls[i].ok
    /\ Len(LeadsOfRecord) >= 2
SeveralCompaniesFound ==
    /\ InProgress
    /\ \E i \in 1..Len(calls) : calls[i].op = "search_companies" /\ calls[i].ok
    /\ Len(CompaniesOfRecord) >= 2

\* C40: when the search by purchase number meets several leads, the first one
\* in arrival order is the lead of the record: no lead is created, and the
\* price comparison, the update, the link, the note and the task are all about
\* that lead.  When the search by tax id meets several companies, no company
\* is created and the first one is the company to link.
C40_FirstMatchIsUsed ==
    /\ SeveralLeadsFound
         => /\ loc.current_lead_id = LeadsOfRecord[1].id
            /\ ~loc.is_new_lead
            /\ loc.budget_changed_during_update
                 = (Rec.contract_securing.kop # loc.lead_current_budget * 100)
            /\ \A i \in 1..Len(calls) :
                  /\ calls[i].op # "create_lead"
                  /\ calls[i].op \in {"update_lead", "get_linked", "link_company",
                                      "add_note", "create_task"}
                       => calls[i].entity_id = LeadsOfRecord[1].id
    /\ SeveralCompaniesFound
         => /\ loc.company_id_to_link = CompaniesOfRecord[1].id
            /\ \A i \in 1..Len(calls) : calls[i].op # "create_company"

\* the second pass met two leads with the record's purchase number and two
\* companies with its tax id, and wrote the note and the task on the first lead
C40_Witness ==
    /\ SeveralLeadsFound /\ SeveralCompaniesFound
    /\ pc = "record_done"
    /\ \E i \in 1..Len(calls) : calls[i].op = "add_note" /\ calls[i].ok
    /\ \E i \in 1..Len(calls) : calls[i].op = "create_task" /\ calls[i].ok
    /\ tasks[Len(tasks)].entity_id = 1

=============================================================================
